---- MODULE Spec2Model ----
(***************************************************************************)
(* State-machine model of libANGLE/renderer/vulkan/vk_helpers.cpp.         *)
(*                                                                         *)
(* DynamicBuffer is modelled with its fields under the source's names, the *)
(* renderer's queue serial and deferred-release (garbage) queue, and the   *)
(* device's handle allocator.  Integer fields keep their C++ width, scaled *)
(* down: uint32_t is OffsetBits wide and size_t is SizeBits wide.          *)
(***************************************************************************)
EXTENDS Integers, Sequences, FiniteSets, TLC

\* ------------------------------------------------------------------ bounds
\* Width of uint32_t (mNextAllocationOffset, *offsetOut), scaled down.
OffsetBits == 2
\* Width of size_t (mSize, mAlignment, sizeInBytes), scaled down.
SizeBits == 3
\* Alignments are the powers of two up to 2^MaxAlignBits.
MaxAlignBits == 1
\* Buffer and memory objects the device hands out before creation fails.
MaxHandles == 4
\* The renderer's queue serial stops advancing here.
MaxSerial == 1
\* Rotations of allocate that fail after retaining the active backing.
MaxDriverFailures == 1
\* Bytes the driver's memory requirement may exceed the buffer's size by.
MaxSlack == 0

\* ------------------------------------------------------------------ state
VARIABLES
    extraBits                       \* bits both widths have beyond OffsetBits and SizeBits

Uint32Modulus == 2 ^ (OffsetBits + extraBits)
SizeModulus == 2 ^ (SizeBits + extraBits)

\* VK_NULL_HANDLE / nullptr.
NullHandle == 0
Handles == 1 .. MaxHandles

\* alignment arguments and nonCoherentAtomSize: Vulkan's offset alignments are
\* powers of two.
AlignmentValues == {2 ^ k : k \in 0 .. MaxAlignBits}
\* mMinSize as the constructor receives it: room for several small requests,
\* and below the largest request.
MinSizes == {2 ^ OffsetBits}
\* sizeInBytes as callers pass it: small requests, and the largest request whose
\* rounding up still fits size_t (it is above the uint32_t range).
RequestSizes == {1, 2, SizeModulus - (2 ^ MaxAlignBits)}

VARIABLES
    lifecycle,                      \* position of the caller in the object's life
    mMinSize, mAlignment, mSize,    \* size_t fields
    mNextAllocationOffset,          \* uint32_t
    mLastFlushOrInvalidateOffset,   \* uint32_t
    mBuffer, mMemory,               \* handles of the active backing
    mMappedMemory,                  \* memory handle the host pointer maps, or NullHandle
    mRetainedBuffers,               \* sequence of [buffer, memory]
    currentQueueSerial,             \* renderer
    garbage,                        \* renderer's deferred-release queue: [serial, handle]
    nextHandle,                     \* device: next fresh handle
    destroyed,                      \* device: handles destroyed immediately
    out,                            \* the last call: arguments, result, out-parameters
    lastAlloc,                      \* history: buffer and end (offset + size) of the last allocation
    lastUseSerial,                  \* history: serial at the last allocate returning a buffer
    flushHistory,                   \* history: driver flushes of the active backing, see below
    flushedTo,                      \* history: the driver has flushed [0, flushedTo) of the active backing
    driverFailures                  \* history: rotations that failed after retaining

\* DynamicDescriptorPool and its last call.
VARIABLES
    poolLifecycle,                  \* "constructed", "live", "destroyed", "aborted", "undefined"
    mMaxSetsPerPool,
    mCurrentSetsCount,
    mFreeDescriptorSets,            \* descriptor-set index -> uint32_t
    mPoolSizes,                     \* sequence of VkDescriptorPoolSize
    mCurrentDescriptorPool,         \* handle, NullHandle when not valid
    poolOut,                        \* the last call: arguments, result, pool used
    setsServed                      \* history: sets the driver allocated from the current pool

\* The ImageHelper objects, the command buffer and the last call.
VARIABLES
    imageLifecycle,                 \* "running", or "aborted" by an assertion
    mImage,                         \* helper -> image handle, NullHandle when not valid
    mDeviceMemory,                  \* helper -> memory handle
    mCurrentLayout,                 \* helper -> layout
    mLayerCount,                    \* helper -> layer count
    imageLayout,                    \* history: helper -> layout its image is in, by its barriers
    nextExternal,                   \* history: externally owned images handed out so far
    commands,                       \* commands the last call recorded, in order
    imageOut                        \* the last call: arguments, result

VARIABLES
    lineLoopOut                     \* LineLoopHelper: the last call's parameters and the indices it wrote

imageVars == <<imageLifecycle, mImage, mDeviceMemory, mCurrentLayout, mLayerCount,
               imageLayout, nextExternal, commands, imageOut>>
poolVars == <<poolLifecycle, mMaxSetsPerPool, mCurrentSetsCount, mFreeDescriptorSets,
              mPoolSizes, mCurrentDescriptorPool, poolOut, setsServed>>
bufferVars == <<mMinSize, mAlignment, mSize, mNextAllocationOffset,
                mLastFlushOrInvalidateOffset, mBuffer, mMemory, mMappedMemory,
                mRetainedBuffers>>
rendererVars == <<currentQueueSerial, garbage, nextHandle, destroyed>>
historyVars == <<out, lastAlloc, lastUseSerial, flushHistory, flushedTo, driverFailures>>
dynamicBufferVars == <<lifecycle, bufferVars, historyVars>>
vars == <<extraBits, lifecycle, bufferVars, rendererVars, historyVars, poolVars, imageVars,
          lineLoopOut>>

\* flushHistory is "none" while the driver has flushed nothing of the active
\* backing, "flushed" once it has, and "gap" when invalidate has since moved
\* mLastFlushOrInvalidateOffset past the end of the last flushed range.

Max(a, b) == IF a >= b THEN a ELSE b

\* ----------------------------------------------------------------- helpers
NoRange == [memory |-> NullHandle, offset |-> 0, size |-> 0]
NoAlloc == [valid |-> FALSE, handle |-> NullHandle, end |-> 0]
NoPtr == [base |-> NullHandle, offset |-> 0]

\* The record of a call that is not allocate.  arg is the call's size_t argument
\* and atom the nonCoherentAtomSize init reads from the renderer's limits.
Call(op, result, range) ==
    [op |-> op, result |-> result, arg |-> 0, atom |-> 0, wantFlag |-> FALSE,
     need |-> 0, rotated |-> FALSE, ptr |-> NoPtr, handle |-> NullHandle,
     offset |-> 0, newBufferAllocated |-> "unset", flushed |-> range,
     invalidated |-> NoRange]

\* roundUp of common/mathutil.h, in size_t arithmetic.
roundUp(value, alignment) ==
    LET temp == (value + alignment - 1) % SizeModulus
    IN  temp - (temp % alignment)

\* RendererVk::releaseObject: ownership of a valid object moves into the
\* deferred-release queue under the serial; an empty object leaves nothing.
releaseObject(queue, serial, handle) ==
    IF handle = NullHandle THEN queue
    ELSE Append(queue, [serial |-> serial, handle |-> handle])

\* Buffer::destroy / DeviceMemory::destroy: a valid handle is destroyed now.
destroyObject(gone, handle) ==
    IF handle = NullHandle THEN gone ELSE gone \cup {handle}

\* Memory size the driver requires for a buffer of createSize bytes.
MemoryRequirements(createSize) ==
    {s \in {createSize, createSize + MaxSlack} : s < SizeModulus}

\* ---------------------------------------------------------- DynamicBuffer
\* The object right after DynamicBuffer::DynamicBuffer(usage, minSize), on a
\* platform whose widths have the given bits beyond OffsetBits and SizeBits.
Constructed(minSize, bits) ==
    /\ extraBits = bits
    /\ lifecycle = "constructed"
    /\ mMinSize = minSize
    /\ mAlignment = 0
    /\ mSize = 0
    /\ mNextAllocationOffset = 0
    /\ mLastFlushOrInvalidateOffset = 0
    /\ mBuffer = NullHandle
    /\ mMemory = NullHandle
    /\ mMappedMemory = NullHandle
    /\ mRetainedBuffers = <<>>
    /\ currentQueueSerial = 0
    /\ garbage = <<>>
    /\ nextHandle = 1
    /\ destroyed = {}
    /\ out = Call("construct", "ok", NoRange)
    /\ lastAlloc = NoAlloc
    /\ lastUseSerial = [h \in Handles |-> -1]
    /\ flushHistory = "none"
    /\ flushedTo = 0
    /\ driverFailures = 0

\* ------------------------------------------------- DynamicDescriptorPool
\* kDefaultDescriptorPoolMaxSets, at the model's scale.
kDefaultDescriptorPoolMaxSets == 2
\* The largest descriptorSetCount and maxSetsPerPool a caller passes.
MaxSetCount == 3

DescriptorTypes == {"UNIFORM_BUFFER_DYNAMIC", "COMBINED_IMAGE_SAMPLER"}
DescriptorSetIndices == {"kUniformsDescriptorSetIndex", "kTextureDescriptorSetIndex"}

GetDescriptorSetIndexfromType(type) ==
    IF type = "UNIFORM_BUFFER_DYNAMIC" THEN "kUniformsDescriptorSetIndex"
    ELSE "kTextureDescriptorSetIndex"

PoolSize(type, descriptorCount) == [type |-> type, descriptorCount |-> descriptorCount]

\* The poolSizes recipes init is given: one type only, both types, and one
\* type in two entries.
PoolSizesChoices ==
    {<<PoolSize("UNIFORM_BUFFER_DYNAMIC", 3)>>,
     <<PoolSize("UNIFORM_BUFFER_DYNAMIC", 2), PoolSize("COMBINED_IMAGE_SAMPLER", 1)>>,
     <<PoolSize("UNIFORM_BUFFER_DYNAMIC", 1), PoolSize("COMBINED_IMAGE_SAMPLER", 2),
       PoolSize("UNIFORM_BUFFER_DYNAMIC", 1)>>}

NoPoolCall ==
    [op |-> "none", result |-> "ok", slot |-> "kUniformsDescriptorSetIndex", count |-> 0,
     rotated |-> FALSE, pool |-> NullHandle, released |-> NullHandle, serial |-> 0]

\* The object right after DynamicDescriptorPool::DynamicDescriptorPool().
DynamicDescriptorPool_constructed ==
    /\ poolLifecycle = "constructed"
    /\ mMaxSetsPerPool = kDefaultDescriptorPoolMaxSets
    /\ mCurrentSetsCount = 0
    /\ mFreeDescriptorSets = [i \in DescriptorSetIndices |-> 0]
    /\ mPoolSizes = <<>>
    /\ mCurrentDescriptorPool = NullHandle
    /\ poolOut = NoPoolCall
    /\ setsServed = 0

\* ------------------------------------------------------------ ImageHelper
\* Images owned outside the helpers (a swapchain's) that can be adopted.
MaxExternalImages == 2
ExternalHandles == (MaxHandles + 1) .. (MaxHandles + MaxExternalImages)

\* Two helpers: the first holds a texture, surface or staging image, the second
\* a staging image to copy from or to.
ImageHelpers == {"image", "staging"}

Layouts ==
    {"UNDEFINED", "GENERAL", "COLOR_ATTACHMENT_OPTIMAL", "DEPTH_STENCIL_ATTACHMENT_OPTIMAL",
     "SHADER_READ_ONLY_OPTIMAL", "TRANSFER_SRC_OPTIMAL", "TRANSFER_DST_OPTIMAL",
     "PREINITIALIZED", "PRESENT_SRC_KHR"}

\* The layouts GetBasicLayoutAccessFlags has a case for.
BasicLayouts == Layouts \ {"SHADER_READ_ONLY_OPTIMAL"}

\* VkAccessFlags as the set of its bits.
GetBasicLayoutAccessFlags(layout) ==
    CASE layout = "COLOR_ATTACHMENT_OPTIMAL" -> {"COLOR_ATTACHMENT_WRITE"}
      [] layout = "DEPTH_STENCIL_ATTACHMENT_OPTIMAL" -> {"DEPTH_STENCIL_ATTACHMENT_WRITE"}
      [] layout = "TRANSFER_DST_OPTIMAL" -> {"TRANSFER_WRITE"}
      [] layout = "PRESENT_SRC_KHR" -> {"MEMORY_READ"}
      [] layout = "TRANSFER_SRC_OPTIMAL" -> {"TRANSFER_READ"}
      [] layout \in {"UNDEFINED", "GENERAL", "PREINITIALIZED"} -> {}
      [] OTHER -> {}

\* GetImageLayerCount of vk_utils: the six faces of a cube map, else one layer.
GetImageLayerCount(textureType) == IF textureType = "CubeMap" THEN 6 ELSE 1

TextureTypes == {"2D", "CubeMap"}
StagingUsages == {"Read", "Write", "Both"}
AspectMasks == {{"COLOR"}, {"DEPTH", "STENCIL"}}

\* The aspect and stage arguments callers pass to changeLayoutWithStages.
TransitionArguments ==
    {[aspectMask |-> {"COLOR"}, stages |-> [src |-> "ALL_COMMANDS", dst |-> "TRANSFER"]],
     [aspectMask |-> {"DEPTH", "STENCIL"},
      stages |-> [src |-> "TOP_OF_PIPE", dst |-> "FRAGMENT_SHADER"]]}

NoImageCall ==
    [op |-> "none", result |-> "ok", image |-> "image", dst |-> "image",
     aspect |-> {}, newLayout |-> "UNDEFINED", stages |-> [src |-> "", dst |-> ""],
     mipLevel |-> 0, levelCount |-> 0]

\* The objects right after ImageHelper::ImageHelper().
ImageHelper_constructed ==
    /\ imageLifecycle = "running"
    /\ mImage = [i \in ImageHelpers |-> NullHandle]
    /\ mDeviceMemory = [i \in ImageHelpers |-> NullHandle]
    /\ mCurrentLayout = [i \in ImageHelpers |-> "UNDEFINED"]
    /\ mLayerCount = [i \in ImageHelpers |-> 0]
    /\ imageLayout = [i \in ImageHelpers |-> "UNDEFINED"]
    /\ nextExternal = 0
    /\ commands = <<>>
    /\ imageOut = NoImageCall

\* ---------------------------------------------------------- LineLoopHelper
NoLineLoopCall == [firstVertex |-> 0, vertexCount |-> 0, indices |-> <<>>]

Init ==
    /\ \E minSize \in MinSizes : Constructed(minSize, 0)
    /\ DynamicDescriptorPool_constructed
    /\ ImageHelper_constructed
    /\ lineLoopOut = NoLineLoopCall

\* mAlignment as init computes it from its argument and the renderer's
\* limits.nonCoherentAtomSize.
InitAlignment(alignment, nonCoherentAtomSize) == Max(alignment, nonCoherentAtomSize)

DynamicBuffer_init(alignment, nonCoherentAtomSize) ==
    /\ lifecycle = "constructed"
    /\ alignment > 0
    /\ mAlignment' = InitAlignment(alignment, nonCoherentAtomSize)
    /\ lifecycle' = "live"
    /\ out' = [Call("init", "ok", NoRange) EXCEPT !.arg = alignment,
                                                 !.atom = nonCoherentAtomSize]
    /\ UNCHANGED <<mMinSize, mSize, mNextAllocationOffset, mLastFlushOrInvalidateOffset,
                   mBuffer, mMemory, mMappedMemory, mRetainedBuffers, rendererVars,
                   lastAlloc, lastUseSerial, flushHistory, flushedTo, driverFailures>>
    /\ UNCHANGED <<extraBits, lineLoopOut, poolVars, imageVars>>

valid == mAlignment > 0

\* sizeToAllocate without the rounding up.
SizeToAllocateUnrounded(sizeInBytes) == sizeInBytes

\* sizeToAllocate of allocate.
SizeToAllocate(sizeInBytes) == roundUp(sizeInBytes, mAlignment)

\* The test that sends allocate to a new buffer: the CheckedNumeric<size_t> sum
\* is invalid, or its value is >= mSize.
NeedsNewBuffer(next, sizeToAllocate, size) ==
    \/ next + sizeToAllocate >= SizeModulus
    \/ next + sizeToAllocate >= size

\* createInfo.size of the new buffer.
BufferCreateSize(sizeToAllocate) == Max(sizeToAllocate, mMinSize)

\* An allocate that leaves mNextAllocationOffset where it was.
AdvanceOffsetStuck(next, sizeToAllocate) == next

\* mNextAllocationOffset += static_cast<uint32_t>(sizeToAllocate), in uint32_t.
AdvanceOffset(next, sizeToAllocate) ==
    (next + (sizeToAllocate % Uint32Modulus)) % Uint32Modulus

\* How far from offset 0 the driver's flushes cover the backing, once a flush
\* of [last, next) has been added to flushes covering [0, covered).
CoveredTo(covered, last, next) == IF last <= covered THEN Max(covered, next) ELSE covered

\* The range flush and invalidate hand to the driver.
PendingRange(memory, last, next) ==
    [memory |-> memory, offset |-> last, size |-> next - last]

\* flush and invalidate call the driver only for a non-empty range.
RangePending(last, next) == next > last

\* The fields allocate works on, as one record.
Current ==
    [ok |-> TRUE, buffer |-> mBuffer, memory |-> mMemory, size |-> mSize,
     mapped |-> mMappedMemory, next |-> mNextAllocationOffset,
     last |-> mLastFlushOrInvalidateOffset, retained |-> mRetainedBuffers,
     nextHandle |-> nextHandle, flushed |-> NoRange, history |-> flushHistory,
     covered |-> flushedTo]

\* if (mMappedMemory) { ANGLE_TRY(flush(device)); unmap; mMappedMemory = nullptr; }
RotateFlush(s, fail) ==
    IF s.mapped = NullHandle THEN s
    ELSE IF ~RangePending(s.last, s.next) THEN [s EXCEPT !.mapped = NullHandle]
    ELSE IF fail = "flush" THEN [s EXCEPT !.ok = FALSE]
    ELSE [s EXCEPT !.flushed = PendingRange(s.memory, s.last, s.next),
                   !.history = "flushed",
                   !.covered = CoveredTo(s.covered, s.last, s.next),
                   !.last = s.next,
                   !.mapped = NullHandle]

\* The rotation without the emplace_back: the moved-from pair is dropped.
RotateRetainDropped(s) ==
    [s EXCEPT !.buffer = NullHandle, !.memory = NullHandle]

\* mRetainedBuffers.emplace_back(std::move(mBuffer), std::move(mMemory));
RotateRetain(s) ==
    [s EXCEPT !.retained = Append(s.retained, [buffer |-> s.buffer, memory |-> s.memory]),
              !.buffer = NullHandle,
              !.memory = NullHandle]

\* ANGLE_TRY(mBuffer.init(device, createInfo));
RotateCreateBuffer(s, fail) ==
    IF fail = "buffer" THEN [s EXCEPT !.ok = FALSE]
    ELSE [s EXCEPT !.buffer = s.nextHandle, !.nextHandle = s.nextHandle + 1]

\* ANGLE_TRY(AllocateBufferMemory(..., &mBuffer, &mMemory, &mSize));
RotateAllocateMemory(s, fail, memSize) ==
    IF fail = "memory" THEN [s EXCEPT !.ok = FALSE]
    ELSE [s EXCEPT !.memory = s.nextHandle, !.nextHandle = s.nextHandle + 1,
                   !.size = memSize, !.history = "none", !.covered = 0]

\* ANGLE_TRY(mMemory.map(...)); mNextAllocationOffset = 0; mLastFlush... = 0;
RotateMap(s, fail) ==
    IF fail = "map" THEN [s EXCEPT !.ok = FALSE]
    ELSE [s EXCEPT !.mapped = s.memory, !.next = 0, !.last = 0]

\* The body of the if in allocate; each ANGLE_TRY returns at the first failure.
Rotate(s, fail, memSize) ==
    LET s1 == RotateFlush(s, fail)
        s2 == RotateRetain(s1)
        s3 == RotateCreateBuffer(s2, fail)
        s4 == RotateAllocateMemory(s3, fail, memSize)
        s5 == RotateMap(s4, fail)
    IN  IF ~s1.ok THEN s1
        ELSE IF ~s3.ok THEN s3
        ELSE IF ~s4.ok THEN s4
        ELSE s5

\* *newBufferAllocatedOut, which is written only when the pointer is given.
NewBufferFlag(wantFlag, rotated) ==
    IF ~wantFlag THEN "unset" ELSE IF rotated THEN "true" ELSE "false"

Failures == {"none", "flush", "buffer", "memory", "map"}

\* How many handles a rotation that fails at `fail` takes from the device.
HandlesTaken(fail) ==
    IF fail \in {"flush", "buffer"} THEN 0 ELSE IF fail = "memory" THEN 1 ELSE 2

DynamicBuffer_allocate(sizeInBytes, wantFlag, fail, debugBuild) ==
    /\ lifecycle = "live"
    /\ valid
    /\ LET sizeToAllocate == SizeToAllocate(sizeInBytes)
           rotated == NeedsNewBuffer(mNextAllocationOffset, sizeToAllocate, mSize)
       IN  \E memSize \in MemoryRequirements(BufferCreateSize(sizeToAllocate)) :
           LET s == IF rotated THEN Rotate(Current, fail, memSize) ELSE Current
               assertsHold == s.buffer # NullHandle /\ s.mapped # NullHandle
               call == [op |-> "allocate", result |-> "ok", arg |-> sizeInBytes, atom |-> 0,
                        wantFlag |-> wantFlag, need |-> sizeToAllocate,
                        rotated |-> rotated, ptr |-> NoPtr, handle |-> NullHandle,
                        offset |-> 0, newBufferAllocated |-> "unset",
                        flushed |-> s.flushed, invalidated |-> NoRange]
           IN  /\ rotated \/ fail = "none"
               /\ fail = "flush" =>
                      mMappedMemory # NullHandle
                      /\ RangePending(mLastFlushOrInvalidateOffset, mNextAllocationOffset)
               /\ rotated => nextHandle + HandlesTaken(fail) <= MaxHandles + 1
               /\ s.retained # mRetainedBuffers /\ ~s.ok =>
                      driverFailures < MaxDriverFailures
               /\ driverFailures' = IF s.retained # mRetainedBuffers /\ ~s.ok
                                    THEN driverFailures + 1
                                    ELSE driverFailures
               /\ debugBuild => s.ok /\ ~assertsHold
               /\ mBuffer' = s.buffer
               /\ mMemory' = s.memory
               /\ mSize' = s.size
               /\ mMappedMemory' = s.mapped
               /\ mLastFlushOrInvalidateOffset' = s.last
               /\ mRetainedBuffers' = s.retained
               /\ nextHandle' = s.nextHandle
               /\ flushHistory' = s.history
               /\ flushedTo' = s.covered
               /\ IF ~s.ok
                  THEN \* an ANGLE_TRY returned the error
                       /\ out' = [call EXCEPT !.result = "error"]
                       /\ mNextAllocationOffset' = s.next
                       /\ UNCHANGED <<lifecycle, lastAlloc, lastUseSerial>>
                  ELSE IF debugBuild
                  THEN \* ASSERT(mBuffer.valid()) or ASSERT(mMappedMemory) stops a debug build
                       /\ out' = Call("allocate", "assert", NoRange)
                       /\ lifecycle' = "aborted"
                       /\ mNextAllocationOffset' = s.next
                       /\ UNCHANGED <<lastAlloc, lastUseSerial>>
                  ELSE /\ out' = [call EXCEPT
                                    !.handle = s.buffer,
                                    !.ptr = [base |-> s.mapped, offset |-> s.next],
                                    !.offset = s.next,
                                    !.newBufferAllocated = NewBufferFlag(wantFlag, rotated)]
                       /\ mNextAllocationOffset' = AdvanceOffset(s.next, sizeToAllocate)
                       /\ lastAlloc' = [valid |-> TRUE, handle |-> s.buffer,
                                        end |-> s.next + sizeToAllocate]
                       /\ lastUseSerial' =
                              IF s.buffer = NullHandle THEN lastUseSerial
                              ELSE [lastUseSerial EXCEPT ![s.buffer] = currentQueueSerial]
                       \* Without the assertions the caller is handed nullptr + offset:
                       \* its write through that pointer is undefined, and ends the run.
                       /\ lifecycle' = IF assertsHold THEN lifecycle ELSE "undefined"
    /\ UNCHANGED <<mMinSize, mAlignment, currentQueueSerial,
                   garbage, destroyed>>
    /\ UNCHANGED <<extraBits, lineLoopOut, poolVars, imageVars>>

\* flush: one vkFlushMappedMemoryRanges over the pending range, if there is one.
DynamicBuffer_flush(driverFails) ==
    /\ lifecycle = "live"
    /\ IF RangePending(mLastFlushOrInvalidateOffset, mNextAllocationOffset)
       THEN IF driverFails
            THEN /\ out' = Call("flush", "error", NoRange)
                 /\ UNCHANGED <<mLastFlushOrInvalidateOffset, flushHistory, flushedTo>>
            ELSE /\ out' = Call("flush", "ok",
                                PendingRange(mMemory, mLastFlushOrInvalidateOffset,
                                             mNextAllocationOffset))
                 /\ mLastFlushOrInvalidateOffset' = mNextAllocationOffset
                 /\ flushHistory' = "flushed"
                 /\ flushedTo' = CoveredTo(flushedTo, mLastFlushOrInvalidateOffset,
                                           mNextAllocationOffset)
       ELSE /\ ~driverFails
            /\ out' = Call("flush", "ok", NoRange)
            /\ UNCHANGED <<mLastFlushOrInvalidateOffset, flushHistory, flushedTo>>
    /\ UNCHANGED <<lifecycle, mMinSize, mAlignment, mSize, mNextAllocationOffset, mBuffer,
                   mMemory, mMappedMemory, mRetainedBuffers, rendererVars, lastAlloc,
                   lastUseSerial, driverFailures>>
    /\ UNCHANGED <<extraBits, lineLoopOut, poolVars, imageVars>>

\* invalidate: one vkInvalidateMappedMemoryRanges over the same pending range.
DynamicBuffer_invalidate(driverFails) ==
    /\ lifecycle = "live"
    /\ IF RangePending(mLastFlushOrInvalidateOffset, mNextAllocationOffset)
       THEN IF driverFails
            THEN /\ out' = Call("invalidate", "error", NoRange)
                 /\ UNCHANGED <<mLastFlushOrInvalidateOffset, flushHistory>>
            ELSE /\ out' = [Call("invalidate", "ok", NoRange) EXCEPT
                              !.invalidated =
                                  PendingRange(mMemory, mLastFlushOrInvalidateOffset,
                                               mNextAllocationOffset)]
                 /\ mLastFlushOrInvalidateOffset' = mNextAllocationOffset
                 /\ flushHistory' = IF flushHistory = "none" THEN "none" ELSE "gap"
       ELSE /\ ~driverFails
            /\ out' = Call("invalidate", "ok", NoRange)
            /\ UNCHANGED <<mLastFlushOrInvalidateOffset, flushHistory>>
    /\ UNCHANGED <<lifecycle, mMinSize, mAlignment, mSize, mNextAllocationOffset, mBuffer,
                   mMemory, mMappedMemory, mRetainedBuffers, rendererVars, lastAlloc,
                   lastUseSerial, flushedTo, driverFailures>>
    /\ UNCHANGED <<extraBits, lineLoopOut, poolVars, imageVars>>

\* The loop of releaseRetainedBuffers: each pair's buffer, then its memory, goes
\* to releaseObject under the serial read in that iteration.
RECURSIVE ReleaseAll(_, _, _)
ReleaseAll(queue, retained, serial) ==
    IF retained = <<>> THEN queue
    ELSE ReleaseAll(releaseObject(releaseObject(queue, serial, Head(retained).buffer),
                                  serial, Head(retained).memory),
                    Tail(retained), serial)

\* The loop of destroy over mRetainedBuffers.
RECURSIVE DestroyAll(_, _)
DestroyAll(gone, retained) ==
    IF retained = <<>> THEN gone
    ELSE DestroyAll(destroyObject(destroyObject(gone, Head(retained).buffer),
                                  Head(retained).memory),
                    Tail(retained))

\* The caller may release or destroy an object it has initialised, also again.
Initialised == lifecycle \in {"live", "released", "destroyed"}

\* The queue after a releaseRetainedBuffers that tags with the first serial.
RetainedReleasedStaleSerial == ReleaseAll(garbage, mRetainedBuffers, 0)

\* The queue after releaseRetainedBuffers.
RetainedReleased == ReleaseAll(garbage, mRetainedBuffers, currentQueueSerial)

DynamicBuffer_releaseRetainedBuffers ==
    /\ Initialised
    /\ garbage' = RetainedReleased
    /\ mRetainedBuffers' = <<>>
    /\ out' = Call("releaseRetainedBuffers", "ok", NoRange)
    /\ UNCHANGED <<lifecycle, mMinSize, mAlignment, mSize, mNextAllocationOffset,
                   mLastFlushOrInvalidateOffset, mBuffer, mMemory, mMappedMemory,
                   currentQueueSerial, nextHandle, destroyed,
                   lastAlloc, lastUseSerial, flushHistory, flushedTo, driverFailures>>
    /\ UNCHANGED <<extraBits, lineLoopOut, poolVars, imageVars>>

\* The queue after a release that hands over the active buffer only.
AllReleasedBufferOnly == releaseObject(RetainedReleased, currentQueueSerial, mBuffer)

\* The queue after release: the retained pairs, then the active buffer and memory.
AllReleased ==
    releaseObject(releaseObject(RetainedReleased, currentQueueSerial, mBuffer),
                  currentQueueSerial, mMemory)

DynamicBuffer_release ==
    /\ Initialised
    /\ garbage' = AllReleased
    /\ mRetainedBuffers' = <<>>
    /\ mAlignment' = 0
    /\ mBuffer' = NullHandle
    /\ mMemory' = NullHandle
    /\ lifecycle' = "released"
    /\ out' = Call("release", "ok", NoRange)
    /\ lastAlloc' = NoAlloc
    /\ flushHistory' = "none"
    /\ flushedTo' = 0
    /\ UNCHANGED <<mMinSize, mSize, mNextAllocationOffset, mLastFlushOrInvalidateOffset,
                   mMappedMemory, currentQueueSerial, nextHandle,
                   destroyed, lastUseSerial, driverFailures>>
    /\ UNCHANGED <<extraBits, lineLoopOut, poolVars, imageVars>>

\* The handles a destroy destroys that also destroys what release queued.
AllDestroyedWithQueued ==
    destroyObject(destroyObject(
        DestroyAll(destroyed \cup {garbage[j].handle : j \in DOMAIN garbage},
                   mRetainedBuffers), mBuffer), mMemory)

\* The handles destroy destroys: the retained pairs, then the active pair.
AllDestroyed ==
    destroyObject(destroyObject(DestroyAll(destroyed, mRetainedBuffers), mBuffer), mMemory)

DynamicBuffer_destroy ==
    /\ Initialised
    /\ destroyed' = AllDestroyed
    /\ mRetainedBuffers' = <<>>
    /\ mAlignment' = 0
    /\ mBuffer' = NullHandle
    /\ mMemory' = NullHandle
    /\ lifecycle' = "destroyed"
    /\ out' = Call("destroy", "ok", NoRange)
    /\ lastAlloc' = NoAlloc
    /\ flushHistory' = "none"
    /\ flushedTo' = 0
    /\ UNCHANGED <<mMinSize, mSize, mNextAllocationOffset, mLastFlushOrInvalidateOffset,
                   mMappedMemory, currentQueueSerial, garbage,
                   nextHandle, lastUseSerial, driverFailures>>
    /\ UNCHANGED <<extraBits, lineLoopOut, poolVars, imageVars>>

\* The renderer submits a batch: the queue serial advances.
Renderer_submit ==
    /\ lifecycle \notin {"aborted", "undefined"}
    /\ currentQueueSerial < MaxSerial
    /\ currentQueueSerial' = currentQueueSerial + 1
    /\ out' = Call("submit", "ok", NoRange)
    /\ poolOut' = [NoPoolCall EXCEPT !.op = "submit"]
    /\ imageOut' = [NoImageCall EXCEPT !.op = "submit"]
    /\ commands' = <<>>
    /\ UNCHANGED <<imageLifecycle, mImage, mDeviceMemory, mCurrentLayout, mLayerCount,
                   imageLayout, nextExternal>>
    /\ UNCHANGED <<lifecycle, bufferVars, garbage, nextHandle,
                   destroyed, lastAlloc, lastUseSerial, flushHistory, flushedTo, driverFailures>>
    /\ UNCHANGED <<poolLifecycle, mMaxSetsPerPool, mCurrentSetsCount, mFreeDescriptorSets,
                   mPoolSizes, mCurrentDescriptorPool, setsServed>>
    /\ UNCHANGED <<extraBits, lineLoopOut>>

\* ------------------------------------------ DynamicDescriptorPool calls
\* The fields allocateNewPool and allocateSets work on, as one record.
CurrentPool ==
    [ok |-> TRUE, pool |-> mCurrentDescriptorPool, free |-> mFreeDescriptorSets,
     sets |-> mCurrentSetsCount, queue |-> garbage, nextHandle |-> nextHandle,
     served |-> setsServed]

\* mFreeDescriptorSets after the loop of allocateNewPool over the first n
\* entries of mPoolSizes.
RECURSIVE FreeFromPoolSizes(_, _)
FreeFromPoolSizes(poolSizes, n) ==
    IF n = 0 THEN [i \in DescriptorSetIndices |-> 0]
    ELSE LET free == FreeFromPoolSizes(poolSizes, n - 1)
             setIndex == GetDescriptorSetIndexfromType(poolSizes[n].type)
         IN  [free EXCEPT ![setIndex] =
                 (free[setIndex] + poolSizes[n].descriptorCount) % Uint32Modulus]

\* allocateNewPool: the counters are reset first, then the pool is created.
allocateNewPool(s, poolSizes, driverFails) ==
    LET reset == [s EXCEPT !.free = FreeFromPoolSizes(poolSizes, Len(poolSizes)),
                           !.sets = 0]
    IN  IF driverFails THEN [reset EXCEPT !.ok = FALSE]
        ELSE [reset EXCEPT !.pool = s.nextHandle, !.nextHandle = s.nextHandle + 1,
                           !.served = 0]

\* The test that sends allocateSets to a new pool.
NeedsNewPool(free, descriptorSetCount, setsCount, maxSets) ==
    free < descriptorSetCount \/ setsCount >= maxSets

\* The rotation of allocateSets: the current pool goes to the deferred-release
\* queue under the current serial, then allocateNewPool.
RotatePool(s, serial, poolSizes, driverFails) ==
    allocateNewPool([s EXCEPT !.queue = releaseObject(s.queue, serial, s.pool),
                              !.pool = NullHandle],
                    poolSizes, driverFails)

\* mFreeDescriptorSets[descriptorSetIndex] -= descriptorSetCount, in uint32_t.
TakeDescriptors(free, descriptorSetCount) ==
    (free + Uint32Modulus - descriptorSetCount) % Uint32Modulus

\* mCurrentSetsCount++, in uint32_t.
CountCall(setsCount, descriptorSetCount) == (setsCount + 1) % Uint32Modulus

PoolFailures == {"none", "pool", "sets"}

DynamicDescriptorPool_init(poolSizes, driverFails) ==
    /\ poolLifecycle \in {"constructed", "destroyed"}
    /\ mCurrentDescriptorPool = NullHandle
    /\ driverFails \/ nextHandle <= MaxHandles
    /\ LET s == allocateNewPool(CurrentPool, poolSizes, driverFails)
       IN  /\ mPoolSizes' = poolSizes
           /\ mFreeDescriptorSets' = s.free
           /\ mCurrentSetsCount' = s.sets
           /\ mCurrentDescriptorPool' = s.pool
           /\ nextHandle' = s.nextHandle
           /\ setsServed' = s.served
           /\ poolLifecycle' = IF s.ok THEN "live" ELSE poolLifecycle
           /\ poolOut' = [NoPoolCall EXCEPT !.op = "init",
                                            !.result = IF s.ok THEN "ok" ELSE "error",
                                            !.pool = s.pool]
    /\ UNCHANGED <<mMaxSetsPerPool, currentQueueSerial, garbage, destroyed>>
    /\ UNCHANGED <<extraBits, lineLoopOut, dynamicBufferVars, imageVars>>

DynamicDescriptorPool_allocateSets(descriptorSetCount, descriptorSetIndex, fail, debugBuild) ==
    /\ poolLifecycle = "live"
    /\ LET rotated == NeedsNewPool(mFreeDescriptorSets[descriptorSetIndex],
                                   descriptorSetCount, mCurrentSetsCount, mMaxSetsPerPool)
           s == IF rotated
                THEN RotatePool(CurrentPool, currentQueueSerial, mPoolSizes, fail = "pool")
                ELSE CurrentPool
           assertHolds == s.free[descriptorSetIndex] >= descriptorSetCount
           call == [op |-> "allocateSets", result |-> "ok", slot |-> descriptorSetIndex,
                    count |-> descriptorSetCount, rotated |-> rotated, pool |-> s.pool,
                    released |-> IF rotated THEN mCurrentDescriptorPool ELSE NullHandle,
                    serial |-> currentQueueSerial]
       IN  /\ fail = "pool" => rotated
           /\ rotated /\ fail # "pool" => nextHandle <= MaxHandles
           /\ debugBuild => s.ok /\ s.pool # NullHandle /\ fail = "none" /\ ~assertHolds
           /\ mCurrentDescriptorPool' = s.pool
           /\ garbage' = s.queue
           /\ nextHandle' = s.nextHandle
           /\ IF ~s.ok
              THEN \* ANGLE_TRY(allocateNewPool(...)) returned the error
                   /\ poolOut' = [call EXCEPT !.result = "error"]
                   /\ mFreeDescriptorSets' = s.free
                   /\ mCurrentSetsCount' = s.sets
                   /\ setsServed' = s.served
                   /\ UNCHANGED poolLifecycle
              ELSE IF s.pool = NullHandle
              THEN \* vkAllocateDescriptorSets from VK_NULL_HANDLE: undefined
                   /\ poolOut' = [call EXCEPT !.result = "undefined"]
                   /\ poolLifecycle' = "undefined"
                   /\ mFreeDescriptorSets' = s.free
                   /\ mCurrentSetsCount' = s.sets
                   /\ setsServed' = s.served
              ELSE IF fail = "sets"
              THEN \* ANGLE_TRY(mCurrentDescriptorPool.allocateDescriptorSets(...))
                   /\ poolOut' = [call EXCEPT !.result = "error"]
                   /\ mFreeDescriptorSets' = s.free
                   /\ mCurrentSetsCount' = s.sets
                   /\ setsServed' = s.served
                   /\ UNCHANGED poolLifecycle
              ELSE IF debugBuild
              THEN \* ASSERT(mFreeDescriptorSets[descriptorSetIndex] >= descriptorSetCount)
                   /\ poolOut' = [call EXCEPT !.result = "assert"]
                   /\ poolLifecycle' = "aborted"
                   /\ mFreeDescriptorSets' = s.free
                   /\ mCurrentSetsCount' = s.sets
                   /\ setsServed' = s.served
              ELSE /\ poolOut' = call
                   /\ mFreeDescriptorSets' =
                          [s.free EXCEPT ![descriptorSetIndex] =
                              TakeDescriptors(s.free[descriptorSetIndex], descriptorSetCount)]
                   /\ mCurrentSetsCount' = CountCall(s.sets, descriptorSetCount)
                   /\ setsServed' = s.served + descriptorSetCount
                   /\ UNCHANGED poolLifecycle
    /\ UNCHANGED <<mMaxSetsPerPool, mPoolSizes, currentQueueSerial, destroyed>>
    /\ UNCHANGED <<extraBits, lineLoopOut, dynamicBufferVars, imageVars>>

DynamicDescriptorPool_destroy ==
    /\ poolLifecycle \in {"constructed", "live", "destroyed"}
    /\ destroyed' = destroyObject(destroyed, mCurrentDescriptorPool)
    /\ mCurrentDescriptorPool' = NullHandle
    /\ poolLifecycle' = IF poolLifecycle = "constructed" THEN "constructed" ELSE "destroyed"
    /\ poolOut' = [NoPoolCall EXCEPT !.op = "destroy", !.released = mCurrentDescriptorPool]
    /\ UNCHANGED <<mMaxSetsPerPool, mCurrentSetsCount, mFreeDescriptorSets, mPoolSizes,
                   setsServed, currentQueueSerial, garbage, nextHandle>>
    /\ UNCHANGED <<extraBits, lineLoopOut, dynamicBufferVars, imageVars>>

\* The test hook; tests call it before the pool serves sets.
DynamicDescriptorPool_setMaxSetsPerPoolForTesting(maxSetsPerPool) ==
    /\ poolLifecycle = "constructed"
    /\ mMaxSetsPerPool' = maxSetsPerPool
    /\ poolOut' = [NoPoolCall EXCEPT !.op = "setMaxSetsPerPoolForTesting",
                                     !.count = maxSetsPerPool]
    /\ UNCHANGED <<poolLifecycle, mCurrentSetsCount, mFreeDescriptorSets, mPoolSizes,
                   mCurrentDescriptorPool, setsServed, rendererVars>>
    /\ UNCHANGED <<extraBits, lineLoopOut, dynamicBufferVars, imageVars>>

PoolNext ==
    \/ \E poolSizes \in PoolSizesChoices, driverFails \in BOOLEAN :
           DynamicDescriptorPool_init(poolSizes, driverFails)
    \/ \E descriptorSetCount \in 1 .. MaxSetCount,
          descriptorSetIndex \in DescriptorSetIndices,
          fail \in PoolFailures, debugBuild \in BOOLEAN :
           DynamicDescriptorPool_allocateSets(descriptorSetCount, descriptorSetIndex,
                                              fail, debugBuild)
    \/ DynamicDescriptorPool_destroy
    \/ \E maxSetsPerPool \in 1 .. MaxSetCount :
           DynamicDescriptorPool_setMaxSetsPerPoolForTesting(maxSetsPerPool)
    \/ Renderer_submit

PoolSpec == Init /\ [][PoolNext]_vars

\* ---------------------------------------------------- ImageHelper calls
\* ~0U: every mip level from baseMipLevel on.
VK_REMAINING_MIP_LEVELS == 0 - 1

\* One recorded command.  For a barrier layout is oldLayout; for a clear it is
\* the layout passed with the image; for a copy image / layout are the source's
\* and dstImage / newLayout the destination's.
Command(cmd, image, layout) ==
    [cmd |-> cmd, image |-> image, dstImage |-> NullHandle,
     layout |-> layout, newLayout |-> layout, aspectMask |-> {},
     baseMipLevel |-> 0, levelCount |-> 1, baseArrayLayer |-> 0, layerCount |-> 1,
     srcAccessMask |-> {}, dstAccessMask |-> {}, stages |-> [src |-> "", dst |-> ""]]

\* srcAccessMask of the barrier changeLayoutWithStages builds.
SrcAccessMask(currentLayout, newLayout) ==
    GetBasicLayoutAccessFlags(currentLayout)
        \cup (IF currentLayout = "PREINITIALIZED" THEN {"HOST_WRITE"} ELSE {})
        \cup (IF newLayout = "SHADER_READ_ONLY_OPTIMAL"
              THEN {"HOST_WRITE", "TRANSFER_WRITE"} ELSE {})

\* dstAccessMask of the barrier changeLayoutWithStages builds.
DstAccessMask(newLayout) ==
    GetBasicLayoutAccessFlags(newLayout)
        \cup (IF newLayout = "SHADER_READ_ONLY_OPTIMAL" THEN {"SHADER_READ"} ELSE {})
        \cup (IF newLayout = "DEPTH_STENCIL_ATTACHMENT_OPTIMAL"
              THEN {"DEPTH_STENCIL_ATTACHMENT_WRITE"} ELSE {})

\* The VkImageMemoryBarrier changeLayoutWithStages builds.
ImageMemoryBarrier(image, layerCount, currentLayout, aspectMask, newLayout, stages) ==
    [Command("singleImageBarrier", image, currentLayout) EXCEPT
        !.newLayout = newLayout,
        !.aspectMask = aspectMask,
        !.levelCount = VK_REMAINING_MIP_LEVELS,
        !.layerCount = layerCount,
        !.srcAccessMask = SrcAccessMask(currentLayout, newLayout),
        !.dstAccessMask = DstAccessMask(newLayout),
        !.stages = stages]

\* The helpers' layouts and the command buffer as a call finds them.
Recording ==
    [layout |-> mCurrentLayout, tracked |-> imageLayout, cmds |-> <<>>,
     unreachable |-> FALSE]

\* changeLayoutWithStages on helper i: one barrier, then the new layout.
\* unreachable records that GetBasicLayoutAccessFlags ran into UNREACHABLE().
changeLayoutWithStages(t, i, aspectMask, newLayout, stages) ==
    [t EXCEPT !.cmds = Append(t.cmds,
                              ImageMemoryBarrier(mImage[i], mLayerCount[i], t.layout[i],
                                                 aspectMask, newLayout, stages)),
              !.layout[i] = newLayout,
              !.tracked[i] = newLayout,
              !.unreachable = \/ t.unreachable
                              \/ t.layout[i] \notin BasicLayouts
                              \/ newLayout \notin BasicLayouts]

\* The stage masks the other way round.
TransferStagesSwapped == [src |-> "TRANSFER", dst |-> "ALL_COMMANDS"]

\* The stage masks clearColor, clearDepthStencil and Copy pass.
TransferStages == [src |-> "ALL_COMMANDS", dst |-> "TRANSFER"]

\* The end of a recording call: UNREACHABLE() stops a build with assertions,
\* and is skipped by one without.
Recorded(t, call, debugBuild) ==
    /\ debugBuild => t.unreachable
    /\ IF debugBuild
       THEN /\ imageLifecycle' = "aborted"
            /\ imageOut' = [call EXCEPT !.result = "assert"]
            /\ commands' = <<>>
            /\ UNCHANGED <<mCurrentLayout, imageLayout>>
       ELSE /\ imageOut' = call
            /\ commands' = t.cmds
            /\ mCurrentLayout' = t.layout
            /\ imageLayout' = t.tracked
            /\ UNCHANGED imageLifecycle
    /\ UNCHANGED <<mImage, mDeviceMemory, mLayerCount, nextExternal>>
    /\ UNCHANGED <<extraBits, lineLoopOut, dynamicBufferVars, poolVars, rendererVars>>

ImageValid(i) == mImage[i] # NullHandle

ImageHelper_init(i, textureType, driverFails) ==
    /\ imageLifecycle = "running"
    /\ i = "image"
    /\ ~ImageValid(i)
    /\ driverFails \/ nextHandle <= MaxHandles
    /\ mLayerCount' = [mLayerCount EXCEPT ![i] = GetImageLayerCount(textureType)]
    /\ mCurrentLayout' = [mCurrentLayout EXCEPT ![i] = "UNDEFINED"]
    /\ imageLayout' = [imageLayout EXCEPT ![i] = "UNDEFINED"]
    /\ mImage' = [mImage EXCEPT ![i] = IF driverFails THEN NullHandle ELSE nextHandle]
    /\ nextHandle' = IF driverFails THEN nextHandle ELSE nextHandle + 1
    /\ imageOut' = [NoImageCall EXCEPT !.op = "init", !.image = i,
                                       !.result = IF driverFails THEN "error" ELSE "ok"]
    /\ commands' = <<>>
    /\ UNCHANGED <<imageLifecycle, mDeviceMemory, nextExternal,
                   currentQueueSerial, garbage, destroyed>>
    /\ UNCHANGED <<extraBits, lineLoopOut, dynamicBufferVars, poolVars>>

ImageHelper_initMemory(i, driverFails) ==
    /\ imageLifecycle = "running"
    /\ ImageValid(i)
    /\ mImage[i] \notin ExternalHandles
    /\ mDeviceMemory[i] = NullHandle
    /\ driverFails \/ nextHandle <= MaxHandles
    /\ mDeviceMemory' = [mDeviceMemory EXCEPT ![i] =
                            IF driverFails THEN NullHandle ELSE nextHandle]
    /\ nextHandle' = IF driverFails THEN nextHandle ELSE nextHandle + 1
    /\ imageOut' = [NoImageCall EXCEPT !.op = "initMemory", !.image = i,
                                       !.result = IF driverFails THEN "error" ELSE "ok"]
    /\ commands' = <<>>
    /\ UNCHANGED <<imageLifecycle, mImage, mCurrentLayout, mLayerCount, imageLayout,
                   nextExternal, currentQueueSerial, garbage, destroyed>>
    /\ UNCHANGED <<extraBits, lineLoopOut, dynamicBufferVars, poolVars>>

StagingFailures == {"none", "image", "memory"}

ImageHelper_init2DStaging(i, usage, fail) ==
    /\ imageLifecycle = "running"
    /\ ~ImageValid(i)
    /\ fail = "image" \/ nextHandle + (IF fail = "memory" THEN 0 ELSE 1) <= MaxHandles
    /\ LET layout == IF usage = "Read" THEN "UNDEFINED" ELSE "PREINITIALIZED"
       IN  /\ mLayerCount' = [mLayerCount EXCEPT ![i] = 1]
           /\ mCurrentLayout' = [mCurrentLayout EXCEPT ![i] = layout]
           /\ imageLayout' = [imageLayout EXCEPT ![i] = layout]
    /\ mImage' = [mImage EXCEPT ![i] = IF fail = "image" THEN NullHandle ELSE nextHandle]
    /\ mDeviceMemory' = [mDeviceMemory EXCEPT ![i] =
                            IF fail = "none" THEN nextHandle + 1 ELSE mDeviceMemory[i]]
    /\ nextHandle' = nextHandle + (CASE fail = "image" -> 0
                                     [] fail = "memory" -> 1
                                     [] OTHER -> 2)
    /\ imageOut' = [NoImageCall EXCEPT !.op = "init2DStaging", !.image = i,
                                       !.result = IF fail = "none" THEN "ok" ELSE "error"]
    /\ commands' = <<>>
    /\ UNCHANGED <<imageLifecycle, nextExternal, currentQueueSerial, garbage, destroyed>>
    /\ UNCHANGED <<extraBits, lineLoopOut, dynamicBufferVars, poolVars>>

\* init2DWeakReference with the handle of an image the caller owns, here one
\* that has just been created and so is in the undefined layout.
ImageHelper_init2DWeakReference(i) ==
    /\ imageLifecycle = "running"
    /\ i = "image"
    /\ ~ImageValid(i)
    /\ nextExternal < MaxExternalImages
    /\ nextExternal' = nextExternal + 1
    /\ mLayerCount' = [mLayerCount EXCEPT ![i] = 1]
    /\ mImage' = [mImage EXCEPT ![i] = MaxHandles + nextExternal + 1]
    /\ imageLayout' = [imageLayout EXCEPT ![i] = "UNDEFINED"]
    /\ imageOut' = [NoImageCall EXCEPT !.op = "init2DWeakReference", !.image = i]
    /\ commands' = <<>>
    /\ UNCHANGED <<imageLifecycle, mDeviceMemory, mCurrentLayout, rendererVars>>
    /\ UNCHANGED <<extraBits, lineLoopOut, dynamicBufferVars, poolVars>>

\* resetImageWeakReference; callers use it on helpers holding an adopted image.
ImageHelper_resetImageWeakReference(i) ==
    /\ imageLifecycle = "running"
    /\ mImage[i] \in ExternalHandles
    /\ mImage' = [mImage EXCEPT ![i] = NullHandle]
    /\ imageOut' = [NoImageCall EXCEPT !.op = "resetImageWeakReference", !.image = i]
    /\ commands' = <<>>
    /\ UNCHANGED <<imageLifecycle, mDeviceMemory, mCurrentLayout, mLayerCount,
                   imageLayout, nextExternal, rendererVars>>
    /\ UNCHANGED <<extraBits, lineLoopOut, dynamicBufferVars, poolVars>>

\* The queue after release(serial, renderer): the image, then its memory.
ImageReleased(i, serial) ==
    releaseObject(releaseObject(garbage, serial, mImage[i]), serial, mDeviceMemory[i])

ImageHelper_release(i) ==
    /\ imageLifecycle = "running"
    /\ garbage' = ImageReleased(i, currentQueueSerial)
    /\ mImage' = [mImage EXCEPT ![i] = NullHandle]
    /\ mDeviceMemory' = [mDeviceMemory EXCEPT ![i] = NullHandle]
    /\ imageOut' = [NoImageCall EXCEPT !.op = "release", !.image = i]
    /\ commands' = <<>>
    /\ UNCHANGED <<imageLifecycle, mCurrentLayout, mLayerCount, imageLayout, nextExternal,
                   currentQueueSerial, nextHandle, destroyed>>
    /\ UNCHANGED <<extraBits, lineLoopOut, dynamicBufferVars, poolVars>>

\* The handles destroy(device) destroys: the image, then its memory.
ImageDestroyed(i) == destroyObject(destroyObject(destroyed, mImage[i]), mDeviceMemory[i])

ImageHelper_destroy(i) ==
    /\ imageLifecycle = "running"
    /\ destroyed' = ImageDestroyed(i)
    /\ mImage' = [mImage EXCEPT ![i] = NullHandle]
    /\ mDeviceMemory' = [mDeviceMemory EXCEPT ![i] = NullHandle]
    /\ mCurrentLayout' = [mCurrentLayout EXCEPT ![i] = "UNDEFINED"]
    /\ mLayerCount' = [mLayerCount EXCEPT ![i] = 0]
    /\ imageOut' = [NoImageCall EXCEPT !.op = "destroy", !.image = i]
    /\ commands' = <<>>
    /\ UNCHANGED <<imageLifecycle, imageLayout, nextExternal,
                   currentQueueSerial, nextHandle, garbage>>
    /\ UNCHANGED <<extraBits, lineLoopOut, dynamicBufferVars, poolVars>>

\* Transitions and clears are recorded through the first helper; the second
\* changes layout in Copy only.
ImageHelper_changeLayoutWithStages(i, aspectMask, newLayout, stages, debugBuild) ==
    /\ imageLifecycle = "running"
    /\ i = "image"
    /\ ImageValid(i)
    /\ Recorded(changeLayoutWithStages(Recording, i, aspectMask, newLayout, stages),
                [NoImageCall EXCEPT !.op = "changeLayoutWithStages", !.image = i,
                                    !.aspect = aspectMask, !.newLayout = newLayout,
                                    !.stages = stages],
                debugBuild)

ImageHelper_clearColor(i, mipLevel, levelCount, debugBuild) ==
    /\ imageLifecycle = "running"
    /\ i = "image"
    /\ ImageValid(i)
    /\ LET t == changeLayoutWithStages(Recording, i, {"COLOR"}, "TRANSFER_DST_OPTIMAL",
                                       TransferStages)
           clear == [Command("clearColorImage", mImage[i], t.layout[i]) EXCEPT
                        !.aspectMask = {"COLOR"},
                        !.baseMipLevel = mipLevel,
                        !.levelCount = levelCount,
                        !.layerCount = mLayerCount[i]]
       IN  Recorded([t EXCEPT !.cmds = Append(t.cmds, clear)],
                    [NoImageCall EXCEPT !.op = "clearColor", !.image = i,
                                        !.mipLevel = mipLevel, !.levelCount = levelCount],
                    debugBuild)

ImageHelper_clearDepthStencil(i, aspectFlags, debugBuild) ==
    /\ imageLifecycle = "running"
    /\ i = "image"
    /\ ImageValid(i)
    /\ LET t == changeLayoutWithStages(Recording, i, aspectFlags, "TRANSFER_DST_OPTIMAL",
                                       TransferStages)
           clear == [Command("clearDepthStencilImage", mImage[i], t.layout[i]) EXCEPT
                        !.aspectMask = aspectFlags]
       IN  Recorded([t EXCEPT !.cmds = Append(t.cmds, clear)],
                    [NoImageCall EXCEPT !.op = "clearDepthStencil", !.image = i,
                                        !.aspect = aspectFlags],
                    debugBuild)

\* A Copy that transitions a side whatever layout it is in.
CopyTransitionAlways(t, i, wanted) ==
    changeLayoutWithStages(t, i, {"COLOR"}, wanted, TransferStages)

\* The transition Copy makes of one side, unless it is in the layout wanted or
\* in general.
CopyTransition(t, i, wanted) ==
    IF t.layout[i] # wanted /\ t.layout[i] # "GENERAL"
    THEN changeLayoutWithStages(t, i, {"COLOR"}, wanted, TransferStages)
    ELSE t

ImageHelper_Copy(srcImage, dstImage, aspectMask, debugBuild) ==
    /\ imageLifecycle = "running"
    /\ srcImage # dstImage
    /\ ImageValid(srcImage)
    /\ ImageValid(dstImage)
    /\ LET t1 == CopyTransition(Recording, srcImage, "TRANSFER_SRC_OPTIMAL")
           t2 == CopyTransition(t1, dstImage, "TRANSFER_DST_OPTIMAL")
           copy == [Command("copyImage", mImage[srcImage], t2.layout[srcImage]) EXCEPT
                       !.dstImage = mImage[dstImage],
                       !.newLayout = t2.layout[dstImage],
                       !.aspectMask = aspectMask]
       IN  Recorded([t2 EXCEPT !.cmds = Append(t2.cmds, copy)],
                    [NoImageCall EXCEPT !.op = "Copy", !.image = srcImage,
                                        !.dst = dstImage, !.aspect = aspectMask],
                    debugBuild)

MipRanges == {[mipLevel |-> 0, levelCount |-> 1], [mipLevel |-> 1, levelCount |-> 2]}
DepthStencilAspects == {{"DEPTH"}, {"DEPTH", "STENCIL"}}

\* Creation, adoption and the recording calls.
ImageNext ==
    \/ \E i \in ImageHelpers, textureType \in TextureTypes, driverFails \in BOOLEAN :
           ImageHelper_init(i, textureType, driverFails)
    \/ \E i \in ImageHelpers, usage \in StagingUsages, fail \in StagingFailures :
           ImageHelper_init2DStaging(i, usage, fail)
    \/ \E i \in ImageHelpers : ImageHelper_init2DWeakReference(i)
    \/ \E i \in ImageHelpers : ImageHelper_resetImageWeakReference(i)
    \/ \E i \in ImageHelpers, arguments \in TransitionArguments, newLayout \in Layouts,
          debugBuild \in BOOLEAN :
           ImageHelper_changeLayoutWithStages(i, arguments.aspectMask, newLayout,
                                              arguments.stages, debugBuild)
    \/ \E i \in ImageHelpers, range \in MipRanges, debugBuild \in BOOLEAN :
           ImageHelper_clearColor(i, range.mipLevel, range.levelCount, debugBuild)
    \/ \E i \in ImageHelpers, aspectFlags \in DepthStencilAspects, debugBuild \in BOOLEAN :
           ImageHelper_clearDepthStencil(i, aspectFlags, debugBuild)
    \/ \E srcImage \in ImageHelpers, dstImage \in ImageHelpers, aspectMask \in AspectMasks,
          debugBuild \in BOOLEAN :
           ImageHelper_Copy(srcImage, dstImage, aspectMask, debugBuild)

\* The helpers are set up and record commands; none is torn down.
ImageSpec == Init /\ [][ImageNext]_vars

\* ------------------------------------------------------------ teardown
\* One of the three helpers is set up without driver failures, used, and
\* released and destroyed in any order, also repeatedly; the helpers are
\* independent objects, and a behaviour follows one of them.
TeardownRequests == {1, 2 ^ OffsetBits}
TeardownLayouts == {"COLOR_ATTACHMENT_OPTIMAL", "PRESENT_SRC_KHR"}

DynamicBufferUntouched == lifecycle = "constructed"
DynamicDescriptorPoolUntouched == poolOut.op = "none"
ImageHelpersUntouched == imageOut.op = "none"

\* The helper a behaviour follows, once it has made its first call.
OnlyDynamicBuffer == DynamicDescriptorPoolUntouched /\ ImageHelpersUntouched
OnlyDynamicDescriptorPool == DynamicBufferUntouched /\ ImageHelpersUntouched
OnlyImageHelper == DynamicBufferUntouched /\ DynamicDescriptorPoolUntouched

TeardownNext ==
    \/ OnlyDynamicBuffer /\ \E alignment \in AlignmentValues :
           DynamicBuffer_init(alignment, 1)
    \/ OnlyDynamicBuffer /\ \E sizeInBytes \in TeardownRequests, wantFlag \in BOOLEAN :
           DynamicBuffer_allocate(sizeInBytes, wantFlag, "none", FALSE)
    \/ OnlyDynamicBuffer /\ DynamicBuffer_flush(FALSE)
    \/ OnlyDynamicBuffer /\ DynamicBuffer_releaseRetainedBuffers
    \/ OnlyDynamicBuffer /\ DynamicBuffer_release
    \/ OnlyDynamicBuffer /\ DynamicBuffer_destroy
    \/ OnlyDynamicDescriptorPool /\ \E poolSizes \in PoolSizesChoices :
           DynamicDescriptorPool_init(poolSizes, FALSE)
    \/ OnlyDynamicDescriptorPool /\ \E descriptorSetIndex \in DescriptorSetIndices :
           DynamicDescriptorPool_allocateSets(1, descriptorSetIndex, "none", FALSE)
    \/ OnlyDynamicDescriptorPool /\ DynamicDescriptorPool_destroy
    \/ OnlyImageHelper /\ \E textureType \in TextureTypes :
           ImageHelper_init("image", textureType, FALSE)
    \/ OnlyImageHelper /\ ImageHelper_initMemory("image", FALSE)
    \/ OnlyImageHelper /\ \E usage \in StagingUsages :
           ImageHelper_init2DStaging("staging", usage, "none")
    \/ OnlyImageHelper /\ ImageHelper_init2DWeakReference("image")
    \/ OnlyImageHelper /\ ImageHelper_resetImageWeakReference("image")
    \/ OnlyImageHelper /\ \E newLayout \in TeardownLayouts :
           ImageHelper_changeLayoutWithStages("image", {"COLOR"}, newLayout,
                                              TransferStages, FALSE)
    \/ OnlyImageHelper /\ \E i \in ImageHelpers : ImageHelper_release(i)
    \/ OnlyImageHelper /\ \E i \in ImageHelpers : ImageHelper_destroy(i)

TeardownSpec == Init /\ [][TeardownNext]_vars

Next ==
    \/ \E alignment \in AlignmentValues, nonCoherentAtomSize \in AlignmentValues :
           DynamicBuffer_init(alignment, nonCoherentAtomSize)
    \/ \E sizeInBytes \in RequestSizes, wantFlag \in BOOLEAN, fail \in Failures,
          debugBuild \in BOOLEAN :
           DynamicBuffer_allocate(sizeInBytes, wantFlag, fail, debugBuild)
    \/ \E driverFails \in BOOLEAN : DynamicBuffer_flush(driverFails)
    \/ \E driverFails \in BOOLEAN : DynamicBuffer_invalidate(driverFails)
    \/ DynamicBuffer_releaseRetainedBuffers
    \/ DynamicBuffer_release
    \/ DynamicBuffer_destroy
    \/ Renderer_submit

Spec == Init /\ [][Next]_vars

\* --------------------------------------------------------- scenario S1
\* Scenario S1 at the model's scale: the alignment stands for 256 B, the first
\* request (300 B) lies strictly between one and two alignments, the second
\* (500 B) rounds to two alignments, and minSize (1 MiB) is the third request
\* and holds the first two.
S1ExtraBits == 2
S1Alignment == 2
S1First == S1Alignment + 1
S1Second == 2 * S1Alignment
S1MinSize == 5 * S1Alignment
S1Requests == {S1First, S1Second, S1MinSize}

S1Init ==
    /\ Constructed(S1MinSize, S1ExtraBits)
    /\ DynamicDescriptorPool_constructed
    /\ ImageHelper_constructed
    /\ lineLoopOut = NoLineLoopCall

S1Next ==
    \/ \E nonCoherentAtomSize \in {1, S1Alignment} :
           DynamicBuffer_init(S1Alignment, nonCoherentAtomSize)
    \/ \E sizeInBytes \in S1Requests, wantFlag \in BOOLEAN, fail \in Failures,
          debugBuild \in BOOLEAN :
           DynamicBuffer_allocate(sizeInBytes, wantFlag, fail, debugBuild)
    \/ \E driverFails \in BOOLEAN : DynamicBuffer_flush(driverFails)
    \/ \E driverFails \in BOOLEAN : DynamicBuffer_invalidate(driverFails)
    \/ DynamicBuffer_releaseRetainedBuffers
    \/ DynamicBuffer_release
    \/ DynamicBuffer_destroy
    \/ Renderer_submit

S1Spec == S1Init /\ [][S1Next]_vars

\* ----------------------------------------------------- LineLoopHelper calls
\* The widths of uint32_t and size_t in the line-loop specification.
LineLoopExtraBits == 2
\* sizeof(uint32_t), in bytes.
sizeofUint32 == 4
\* kLineLoopDynamicBufferMinSize, at the model's scale: room for several
\* index buffers.
kLineLoopDynamicBufferMinSize == 4 * sizeofUint32
\* The largest vertex count of a draw call.
MaxVertexCount == 2
VertexCounts == 0 .. MaxVertexCount
\* firstVertex is cast to uint32_t: the smallest and the largest values of
\* that type.
LargestUint32InLineLoop == 2 ^ (OffsetBits + LineLoopExtraBits) - 1
FirstVertices == {0, 1, LargestUint32InLineLoop - 1, LargestUint32InLineLoop}

\* The object right after LineLoopHelper::LineLoopHelper(renderer): the
\* embedded DynamicBuffer constructed and initialised for 32-bit indices.
LineLoopHelper_constructed(nonCoherentAtomSize) ==
    /\ extraBits = LineLoopExtraBits
    /\ lifecycle = "live"
    /\ mMinSize = kLineLoopDynamicBufferMinSize
    /\ mAlignment = InitAlignment(sizeofUint32, nonCoherentAtomSize)
    /\ mSize = 0
    /\ mNextAllocationOffset = 0
    /\ mLastFlushOrInvalidateOffset = 0
    /\ mBuffer = NullHandle
    /\ mMemory = NullHandle
    /\ mMappedMemory = NullHandle
    /\ mRetainedBuffers = <<>>
    /\ currentQueueSerial = 0
    /\ garbage = <<>>
    /\ nextHandle = 1
    /\ destroyed = {}
    /\ out = [Call("init", "ok", NoRange) EXCEPT !.arg = sizeofUint32,
                                                 !.atom = nonCoherentAtomSize]
    /\ lastAlloc = NoAlloc
    /\ lastUseSerial = [h \in Handles |-> -1]
    /\ flushHistory = "none"
    /\ flushedTo = 0
    /\ driverFailures = 0
    /\ lineLoopOut = NoLineLoopCall

LineLoopInit ==
    /\ \E nonCoherentAtomSize \in {1, sizeofUint32} :
           LineLoopHelper_constructed(nonCoherentAtomSize)
    /\ DynamicDescriptorPool_constructed
    /\ ImageHelper_constructed

\* size_t allocateBytes = sizeof(uint32_t) * (drawCallParams.vertexCount() + 1);
AllocateBytes(vertexCount) == (sizeofUint32 * (vertexCount + 1)) % SizeModulus

\* getClampedVertexCount<uint32_t>(): the count, at most the largest uint32_t.
ClampedVertexCount(vertexCount) ==
    IF vertexCount > Uint32Modulus - 1 THEN Uint32Modulus - 1 ELSE vertexCount

\* The indices the loop and the closing store write, in order.  The loop's
\* bound clampedVertexCount + unsignedFirstVertex is a uint32_t sum.
LineLoopIndices(firstVertex, vertexCount) ==
    LET unsignedFirstVertex == firstVertex % Uint32Modulus
        last == (ClampedVertexCount(vertexCount) + unsignedFirstVertex) % Uint32Modulus
        loop == IF unsignedFirstVertex < last
                THEN [k \in 1 .. (last - unsignedFirstVertex) |-> unsignedFirstVertex + k - 1]
                ELSE <<>>
    IN  Append(loop, unsignedFirstVertex)

LineLoopFailures == Failures \cup {"lastFlush"}

\* getIndexBufferForDrawArrays: releaseRetainedBuffers, allocate, the writes
\* through the pointer allocate returned, flush.
LineLoopHelper_getIndexBufferForDrawArrays(firstVertex, vertexCount, fail, debugBuild) ==
    /\ lifecycle = "live"
    /\ valid
    /\ LET allocateBytes == AllocateBytes(vertexCount)
           sizeToAllocate == SizeToAllocate(allocateBytes)
           rotated == NeedsNewBuffer(mNextAllocationOffset, sizeToAllocate, mSize)
           released == [Current EXCEPT !.retained = <<>>]
       IN  \E memSize \in MemoryRequirements(BufferCreateSize(sizeToAllocate)) :
           LET s == IF rotated THEN Rotate(released, fail, memSize) ELSE released
               assertsHold == s.buffer # NullHandle /\ s.mapped # NullHandle
               next == AdvanceOffset(s.next, sizeToAllocate)
               pending == RangePending(s.last, next)
               call == [op |-> "getIndexBufferForDrawArrays", result |-> "ok",
                        arg |-> allocateBytes, atom |-> 0,
                        wantFlag |-> FALSE, need |-> sizeToAllocate,
                        rotated |-> rotated, ptr |-> NoPtr, handle |-> NullHandle,
                        offset |-> 0, newBufferAllocated |-> "unset",
                        flushed |-> s.flushed, invalidated |-> NoRange]
               returned == [call EXCEPT !.handle = s.buffer,
                                        !.ptr = [base |-> s.mapped, offset |-> s.next],
                                        !.offset = s.next]
           IN  /\ rotated \/ fail \in {"none", "lastFlush"}
               /\ fail = "flush" =>
                      mMappedMemory # NullHandle
                      /\ RangePending(mLastFlushOrInvalidateOffset, mNextAllocationOffset)
               /\ fail = "lastFlush" => pending
               /\ rotated => nextHandle + HandlesTaken(fail) <= MaxHandles + 1
               /\ s.retained # <<>> /\ ~s.ok => driverFailures < MaxDriverFailures
               /\ driverFailures' = IF s.retained # <<>> /\ ~s.ok
                                    THEN driverFailures + 1
                                    ELSE driverFailures
               /\ debugBuild => s.ok /\ ~assertsHold
               /\ garbage' = RetainedReleased
               /\ mBuffer' = s.buffer
               /\ mMemory' = s.memory
               /\ mSize' = s.size
               /\ mMappedMemory' = s.mapped
               /\ mRetainedBuffers' = s.retained
               /\ nextHandle' = s.nextHandle
               /\ lineLoopOut' = [firstVertex |-> firstVertex, vertexCount |-> vertexCount,
                                  indices |-> IF s.ok /\ ~debugBuild
                                              THEN LineLoopIndices(firstVertex, vertexCount)
                                              ELSE <<>>]
               /\ IF ~s.ok
                  THEN \* ANGLE_TRY(mDynamicIndexBuffer.allocate(...)) returned the error
                       /\ out' = [call EXCEPT !.result = "error"]
                       /\ mNextAllocationOffset' = s.next
                       /\ mLastFlushOrInvalidateOffset' = s.last
                       /\ flushHistory' = s.history
                       /\ flushedTo' = s.covered
                       /\ UNCHANGED <<lifecycle, lastAlloc, lastUseSerial>>
                  ELSE IF debugBuild
                  THEN \* ASSERT(mBuffer.valid()) or ASSERT(mMappedMemory) in allocate
                       /\ out' = Call("getIndexBufferForDrawArrays", "assert", NoRange)
                       /\ lifecycle' = "aborted"
                       /\ mNextAllocationOffset' = s.next
                       /\ mLastFlushOrInvalidateOffset' = s.last
                       /\ flushHistory' = s.history
                       /\ flushedTo' = s.covered
                       /\ UNCHANGED <<lastAlloc, lastUseSerial>>
                  ELSE /\ mNextAllocationOffset' = next
                       /\ lastAlloc' = [valid |-> TRUE, handle |-> s.buffer,
                                        end |-> s.next + sizeToAllocate]
                       /\ lastUseSerial' =
                              IF s.buffer = NullHandle THEN lastUseSerial
                              ELSE [lastUseSerial EXCEPT ![s.buffer] = currentQueueSerial]
                       \* without the assertions the indices are written through
                       \* nullptr + offset: undefined, and the run ends there
                       /\ lifecycle' = IF assertsHold THEN lifecycle ELSE "undefined"
                       /\ IF ~pending
                          THEN /\ out' = returned
                               /\ mLastFlushOrInvalidateOffset' = s.last
                               /\ flushHistory' = s.history
                               /\ flushedTo' = s.covered
                          ELSE IF fail = "lastFlush"
                          THEN \* ANGLE_TRY(mDynamicIndexBuffer.flush(...))
                               /\ out' = [returned EXCEPT !.result = "error"]
                               /\ mLastFlushOrInvalidateOffset' = s.last
                               /\ flushHistory' = s.history
                               /\ flushedTo' = s.covered
                          ELSE /\ out' = [returned EXCEPT
                                             !.flushed = PendingRange(s.memory, s.last, next)]
                               /\ mLastFlushOrInvalidateOffset' = next
                               /\ flushHistory' = "flushed"
                               /\ flushedTo' = CoveredTo(s.covered, s.last, next)
    /\ UNCHANGED <<mMinSize, mAlignment, currentQueueSerial, destroyed>>
    /\ UNCHANGED <<extraBits, poolVars, imageVars>>

\* LineLoopHelper::destroy: the destroy of the embedded DynamicBuffer.
LineLoopHelper_destroy == DynamicBuffer_destroy

LineLoopNext ==
    \/ \E firstVertex \in FirstVertices, vertexCount \in VertexCounts,
          fail \in LineLoopFailures, debugBuild \in BOOLEAN :
           LineLoopHelper_getIndexBufferForDrawArrays(firstVertex, vertexCount,
                                                      fail, debugBuild)
    \/ LineLoopHelper_destroy
    \/ Renderer_submit

LineLoopSpec == LineLoopInit /\ [][LineLoopNext]_vars

\* ------------------------------------------------------------ properties
\* A step in which allocate returned success.
AllocateReturns == out'.op = "allocate" /\ out'.result = "ok"

\* The state right after an allocate that returned success.
AllocateReturned == out.op = "allocate" /\ out.result = "ok"

\* C1: allocate rotates to a new backing exactly when nextOffset + need exceeds
\* the backing's size or the sum overflows; a request with nextOffset + need
\* equal to size is served from the current backing.
C1_RotatesIffRequestExceedsSize ==
    [][AllocateReturns =>
          (out'.rotated <=>
              \/ mNextAllocationOffset + out'.need > mSize
              \/ mNextAllocationOffset + out'.need >= SizeModulus)]_vars

\* C2: between two rotations the offsets allocate returns increase and the
\* regions do not overlap: each offset is at or above the end (offset plus
\* rounded size) of the allocation before it in the same backing.
C2_BumpDiscipline ==
    [][(AllocateReturns /\ ~out'.rotated /\ lastAlloc.valid
            /\ out'.handle = lastAlloc.handle) =>
          out'.offset >= lastAlloc.end]_vars

C4_RotationEffects ==
    [][AllocateReturns =>
          IF out'.rotated
          THEN /\ mRetainedBuffers' =
                      Append(mRetainedBuffers, [buffer |-> mBuffer, memory |-> mMemory])
               /\ mBuffer' \notin {NullHandle, mBuffer}
               /\ mMemory' \notin {NullHandle, mMemory}
               /\ mMappedMemory' = mMemory'
               /\ mSize' >= out'.need
               /\ mSize' >= mMinSize
               /\ out'.offset = 0
               /\ mNextAllocationOffset' = out'.need
               /\ mLastFlushOrInvalidateOffset' = 0
               /\ out'.handle = mBuffer'
               /\ out'.wantFlag => out'.newBufferAllocated = "true"
          ELSE /\ out'.wantFlag => out'.newBufferAllocated = "false"
               /\ out'.handle = mBuffer
               /\ mBuffer' = mBuffer]_vars

Last(seq) == seq[Len(seq)]
QueuedHandles(queue) == {queue[i].handle : i \in DOMAIN queue}

\* A step in which the request did not fit the backing and allocate returned.
RequestDidNotFit ==
    AllocateReturns /\ mNextAllocationOffset + out'.need > mSize

\* C5 as stated: when a request does not fit, on return the handle differs from
\* the previous one and the old handle is in the deferred-release queue.
C5_OldHandleQueuedOnReturn ==
    [][RequestDidNotFit =>
          /\ out'.handle # mBuffer
          /\ mBuffer # NullHandle => mBuffer \in QueuedHandles(garbage')]_vars

\* C5 amended: when a request does not fit, on return the handle differs from
\* the previous one and the old pair is the last entry of retainedBuffers, not
\* yet in the deferred-release queue; the next releaseRetainedBuffers or
\* release hands every retained handle to the queue.
C5_OldHandleRetainedOnReturn ==
    [][/\ RequestDidNotFit =>
             /\ out'.handle # mBuffer
             /\ mRetainedBuffers' # <<>>
             /\ Last(mRetainedBuffers') = [buffer |-> mBuffer, memory |-> mMemory]
             /\ garbage' = garbage
       /\ out'.op \in {"releaseRetainedBuffers", "release"} =>
             \A i \in DOMAIN mRetainedBuffers :
                 {mRetainedBuffers[i].buffer, mRetainedBuffers[i].memory} \ {NullHandle}
                     \subseteq QueuedHandles(garbage')]_vars

\* An allocate has just rotated away from a buffer, which is retained and not
\* in the deferred-release queue.
C5_SupersededBufferRetained ==
    /\ AllocateReturned
    /\ out.rotated
    /\ mRetainedBuffers # <<>>
    /\ Last(mRetainedBuffers).buffer \notin {NullHandle, out.handle}
    /\ Last(mRetainedBuffers).buffer \notin QueuedHandles(garbage)

\* C6: every buffer in the deferred-release queue is tagged with a serial at or
\* above the queue serial current at each allocate that returned that buffer.
C6_ReleaseSerialCoversUses ==
    \A i \in DOMAIN garbage : lastUseSerial[garbage[i].handle] <= garbage[i].serial

\* A buffer allocate returned after the serial advanced is in the queue.
C6_UsedBufferQueued ==
    \E i \in DOMAIN garbage :
        /\ lastUseSerial[garbage[i].handle] = MaxSerial
        /\ garbage[i].serial = MaxSerial

\* A step in which flush returned success.
FlushReturns == out'.op = "flush" /\ out'.result = "ok"

\* C7: a successful flush issues one driver flush over exactly
\* [lastFlushedOffset, nextOffset) when the range is non-empty and none when it
\* is empty, and leaves lastFlushedOffset = nextOffset; a second immediate flush
\* issues nothing; successive flushed ranges of one backing are contiguous.
C7_FlushCoverage ==
    [][FlushReturns =>
          /\ mNextAllocationOffset > mLastFlushOrInvalidateOffset =>
                 out'.flushed =
                     [memory |-> mMemory, offset |-> mLastFlushOrInvalidateOffset,
                      size |-> mNextAllocationOffset - mLastFlushOrInvalidateOffset]
          /\ mNextAllocationOffset = mLastFlushOrInvalidateOffset =>
                 out'.flushed = NoRange
          /\ mLastFlushOrInvalidateOffset' = mNextAllocationOffset'
          /\ (out.op = "flush" /\ out.result = "ok") => out'.flushed = NoRange
          /\ out'.flushed # NoRange => flushHistory # "gap"]_vars

\* C8: on an initialised object, whatever calls succeeded or failed,
\* lastFlushedOffset <= nextOffset <= size.
C8_OffsetsOrdered ==
    lifecycle = "live" =>
        /\ mLastFlushOrInvalidateOffset <= mNextAllocationOffset
        /\ mNextAllocationOffset <= mSize

\* C9: in every state, also after failed allocate calls, release and destroy,
\* size > 0 implies mappedPtr is non-null and maps the active memory.
C9_MappedWhenSized ==
    (Initialised /\ mSize > 0) =>
        /\ mMappedMemory # NullHandle
        /\ mMappedMemory = mMemory

\* The handles of the pairs of retained that are not null.
RetainedHandles(retained) ==
    UNION {{retained[i].buffer, retained[i].memory} : i \in DOMAIN retained}
        \ {NullHandle}

\* The entries appended to the deferred-release queue by the step.
NewlyQueued == {garbage'[j] : j \in (Len(garbage) + 1) .. Len(garbage')}

\* How often the queue holds the handle.
TimesQueued(handle) == Cardinality({j \in DOMAIN garbage : garbage[j].handle = handle})

S1Fresh ==
    /\ lifecycle = "live"
    /\ mSize = 0
    /\ mBuffer = NullHandle
    /\ mRetainedBuffers = <<>>

\* The state right after the scenario's first allocate returned.
S1AfterFirst ==
    /\ AllocateReturned
    /\ out.arg = S1First
    /\ out.rotated
    /\ out.offset = 0
    /\ mBuffer = out.handle
    /\ Len(mRetainedBuffers) = 1
    /\ mRetainedBuffers[1].buffer = NullHandle

\* The state right after the scenario's second allocate returned from the
\* buffer of the first.
S1AfterSecond ==
    /\ AllocateReturned
    /\ out.arg = S1Second
    /\ ~out.rotated
    /\ out.offset > 0
    /\ mBuffer = out.handle
    /\ Len(mRetainedBuffers) = 1
    /\ mRetainedBuffers[1].buffer = NullHandle

\* The three steps of the scenario, with the offset expected of the second.
S1Steps(secondOffset) ==
    /\ S1Fresh /\ AllocateReturns /\ out'.arg = S1First =>
           /\ out'.offset = 0
           /\ out'.handle # NullHandle
    /\ S1AfterFirst /\ AllocateReturns /\ out'.arg = S1Second =>
           /\ out'.offset = secondOffset
           /\ out'.handle = out.handle
           /\ ~out'.rotated
    /\ S1AfterSecond /\ AllocateReturns /\ out'.arg = S1MinSize =>
           /\ out'.rotated
           /\ out'.offset = 0
           /\ out'.handle \notin {NullHandle, out.handle}
           /\ Last(mRetainedBuffers').buffer = out.handle

\* C11: in scenario S1 (alignment 256, minSize 1 MiB; allocate 300 B, 500 B,
\* 1 MiB) the first two requests get offsets 0 and 256 of one buffer, the
\* third rotates and gets offset 0 of a new buffer, and the first buffer is
\* then a retained entry.
C11_ScenarioOffsets0And256 == [][S1Steps(S1Alignment)]_vars

\* C11, amended: the second request gets the offset of the first request's
\* rounded size, two alignments (512); the rest of the scenario is as stated.
C11_ScenarioOffsets0And512 == [][S1Steps(2 * S1Alignment)]_vars

\* The scenario has run to its end: the third allocate rotated away from a
\* buffer that held two rounded requests and was never flushed by the caller.
C11_ScenarioCompleted ==
    /\ AllocateReturned
    /\ out.arg = S1MinSize
    /\ out.rotated
    /\ out.offset = 0
    /\ out.flushed.offset = 0
    /\ out.flushed.size = 4 * S1Alignment
    /\ Len(mRetainedBuffers) = 2
    /\ mRetainedBuffers[1].buffer = NullHandle
    /\ mRetainedBuffers[2].buffer \notin {NullHandle, out.handle}

\* ---------------------------------------------------------------- C12
\* What allocateNewPool makes of the recipe: the capacity of each slot.
PoolCapacity == FreeFromPoolSizes(mPoolSizes, Len(mPoolSizes))

\* C12: whatever allocateSets calls follow init, no freePerIndex entry goes
\* below zero (the unsigned counter never wraps past its slot's capacity) and
\* currentSetsCount stays at or below maxSetsPerPool.
C12_FreeNeverNegativeCountBounded ==
    /\ \A i \in DescriptorSetIndices : mFreeDescriptorSets[i] <= PoolCapacity[i]
    /\ mCurrentSetsCount <= mMaxSetsPerPool

\* ---------------------------------------------------------------- C13
\* A step in which allocateSets returned success.
AllocateSetsReturns == poolOut'.op = "allocateSets" /\ poolOut'.result = "ok"

\* What a returning allocateSets must have done, given the counters it took
\* the sets from: those of a fresh pool after a rotation, the current ones
\* otherwise.
AllocateSetsEffects ==
    LET slot == poolOut'.slot
        count == poolOut'.count
        rotates == \/ mFreeDescriptorSets[slot] < count
                   \/ mCurrentSetsCount + 1 > mMaxSetsPerPool
        free == IF rotates THEN PoolCapacity ELSE mFreeDescriptorSets
        sets == IF rotates THEN 0 ELSE mCurrentSetsCount
    IN  /\ poolOut'.rotated = rotates
        /\ poolOut'.pool = mCurrentDescriptorPool'
        /\ IF rotates
           THEN /\ garbage' = releaseObject(garbage, currentQueueSerial,
                                            mCurrentDescriptorPool)
                /\ mCurrentDescriptorPool' = nextHandle
                /\ nextHandle' = nextHandle + 1
           ELSE UNCHANGED <<mCurrentDescriptorPool, garbage, nextHandle>>
        /\ mFreeDescriptorSets' = [free EXCEPT ![slot] = free[slot] - count]
        /\ mCurrentSetsCount' = sets + 1

\* C13: allocateSets rotates exactly when, on entry, freePerIndex[slot] < count
\* or currentSetsCount + 1 > maxSetsPerPool, and then exactly once: the old pool
\* goes to releaseObject under the current serial and the counters restart from
\* poolSizes before the sets are allocated; a successful call then lowers
\* freePerIndex[slot] by count and raises currentSetsCount by one.
C13_RotationRuleAndAccounting == [][AllocateSetsReturns => AllocateSetsEffects]_vars

\* ---------------------------------------------------------------- C14
\* C14: the descriptor sets allocated from any one pool object, summed over the
\* allocateSets calls it served, never number more than maxSetsPerPool.
C14_SetsPerPoolCeiling == setsServed <= mMaxSetsPerPool

\* ---------------------------------------------------------------- C15
\* A step in which a call that records commands returned.
RecordingReturns ==
    /\ imageOut'.op \in {"changeLayoutWithStages", "clearColor", "clearDepthStencil", "Copy"}
    /\ imageOut'.result = "ok"

\* A step in which changeLayoutWithStages returned.
ChangeLayoutReturns ==
    imageOut'.op = "changeLayoutWithStages" /\ imageOut'.result = "ok"

IsBarrier(c) == c.cmd = "singleImageBarrier"

\* changeLayoutWithStages recorded one barrier, from the helper's layout to the
\* new one, with the caller's aspect, over every mip level and array layer.
OneFullRangeBarrier ==
    LET i == imageOut'.image
    IN  /\ Len(commands') = 1
        /\ IsBarrier(commands'[1])
        /\ commands'[1].image = mImage[i]
        /\ commands'[1].layout = mCurrentLayout[i]
        /\ commands'[1].newLayout = imageOut'.newLayout
        /\ commands'[1].aspectMask = imageOut'.aspect
        /\ commands'[1].baseMipLevel = 0
        /\ commands'[1].levelCount = VK_REMAINING_MIP_LEVELS
        /\ commands'[1].baseArrayLayer = 0
        /\ commands'[1].layerCount = mLayerCount[i]
        /\ mCurrentLayout'[i] = imageOut'.newLayout

\* Every barrier a call recorded starts from the layout the image was left in
\* by the barrier before it, or from the image's initial layout.
BarriersChain ==
    \A k \in 1 .. Len(commands') :
        IsBarrier(commands'[k]) =>
            \A i \in ImageHelpers :
                mImage[i] = commands'[k].image => commands'[k].layout = imageLayout[i]

\* C15: changeLayoutWithStages appends exactly one barrier, with oldLayout the
\* layout before the call, the new layout, the caller's aspect, all mip levels
\* and all layers, and sets currentLayout; so over transitions, clears and
\* copies each barrier's oldLayout is the previous barrier's newLayout for the
\* image, or the image's initial layout.
C15_OneBarrierPerTransitionChained ==
    [][/\ ChangeLayoutReturns => OneFullRangeBarrier
       /\ RecordingReturns => BarriersChain]_vars

\* ---------------------------------------------------------------- C16
\* The access mask of a layout by the table; a layout without a row has none.
TableAccessMask(layout) ==
    CASE layout = "COLOR_ATTACHMENT_OPTIMAL" -> {"COLOR_ATTACHMENT_WRITE"}
      [] layout = "DEPTH_STENCIL_ATTACHMENT_OPTIMAL" -> {"DEPTH_STENCIL_ATTACHMENT_WRITE"}
      [] layout = "TRANSFER_DST_OPTIMAL" -> {"TRANSFER_WRITE"}
      [] layout = "TRANSFER_SRC_OPTIMAL" -> {"TRANSFER_READ"}
      [] layout = "PRESENT_SRC_KHR" -> {"MEMORY_READ"}
      [] OTHER -> {}

\* The barrier of a transition carries the masks of the table and its
\* adjustments, and the helper ends in the new layout.
MasksPerTable ==
    LET i == imageOut'.image
        old == mCurrentLayout[i]
        new == imageOut'.newLayout
    IN  /\ Len(commands') = 1
        /\ commands'[1].srcAccessMask =
               TableAccessMask(old)
                   \cup (IF old = "PREINITIALIZED" THEN {"HOST_WRITE"} ELSE {})
                   \cup (IF new = "SHADER_READ_ONLY_OPTIMAL"
                         THEN {"HOST_WRITE", "TRANSFER_WRITE"} ELSE {})
        /\ commands'[1].dstAccessMask =
               TableAccessMask(new)
                   \cup (IF new = "SHADER_READ_ONLY_OPTIMAL" THEN {"SHADER_READ"} ELSE {})
                   \cup (IF new = "DEPTH_STENCIL_ATTACHMENT_OPTIMAL"
                         THEN {"DEPTH_STENCIL_ATTACHMENT_WRITE"} ELSE {})
        /\ mCurrentLayout'[i] = new

\* C16: for every pair of current and new layout changeLayoutWithStages
\* completes and records a barrier with srcAccessMask = table(current), plus
\* host-write from preinitialized, plus host-write and transfer-write towards
\* shader-read-only-optimal, and dstAccessMask = table(new), plus shader-read
\* for shader-read-only-optimal, plus depth-stencil-attachment-write for
\* depth-stencil-attachment-optimal; so does preinitialized to
\* shader-read-only-optimal (S5).
C16_AccessMasksForEveryPair ==
    [][imageOut'.op = "changeLayoutWithStages" =>
           imageOut'.result = "ok" /\ MasksPerTable]_vars

\* ---------------------------------------------------------------- C17
\* A step in which Copy returned.
CopyReturns == imageOut'.op = "Copy" /\ imageOut'.result = "ok"

\* The barriers among the commands recorded for an image.
BarriersOf(cmds, image) ==
    SelectSeq(cmds, LAMBDA c : IsBarrier(c) /\ c.image = image)

\* What Copy does to one side: nothing when it is in general or in the layout
\* wanted, else a single barrier to the layout wanted.
CopySide(i, wanted) ==
    LET barriers == BarriersOf(commands', mImage[i])
    IN  IF mCurrentLayout[i] \in {"GENERAL", wanted}
        THEN /\ barriers = <<>>
             /\ mCurrentLayout'[i] = mCurrentLayout[i]
        ELSE /\ Len(barriers) = 1
             /\ barriers[1].layout = mCurrentLayout[i]
             /\ barriers[1].newLayout = wanted
             /\ mCurrentLayout'[i] = wanted

\* The commands of a Copy: the barriers, then one copy of one region at mip
\* level 0, layer 0, with the caller's aspect and the layouts reached.
CopyCommands ==
    LET src == imageOut'.image
        dst == imageOut'.dst
        n == Len(commands')
    IN  /\ n >= 1
        /\ \A k \in 1 .. n : commands'[k].cmd = "copyImage" <=> k = n
        /\ \A k \in 1 .. n - 1 : IsBarrier(commands'[k])
        /\ commands'[n].image = mImage[src]
        /\ commands'[n].dstImage = mImage[dst]
        /\ commands'[n].layout = mCurrentLayout'[src]
        /\ commands'[n].newLayout = mCurrentLayout'[dst]
        /\ commands'[n].aspectMask = imageOut'.aspect
        /\ commands'[n].baseMipLevel = 0
        /\ commands'[n].baseArrayLayer = 0
        /\ commands'[n].layerCount = 1

ClearReturns ==
    imageOut'.op \in {"clearColor", "clearDepthStencil"} /\ imageOut'.result = "ok"

\* The two commands of a clear: the barrier to transfer-dst-optimal with the
\* given aspect, then the clear of the given range in that layout.
ClearCommands(i, cmd, aspectMask, baseMipLevel, levelCount, layerCount) ==
    /\ Len(commands') = 2
    /\ IsBarrier(commands'[1])
    /\ commands'[1].image = mImage[i]
    /\ commands'[1].layout = mCurrentLayout[i]
    /\ commands'[1].newLayout = "TRANSFER_DST_OPTIMAL"
    /\ commands'[1].aspectMask = aspectMask
    /\ commands'[1].stages = [src |-> "ALL_COMMANDS", dst |-> "TRANSFER"]
    /\ commands'[2].cmd = cmd
    /\ commands'[2].image = mImage[i]
    /\ commands'[2].layout = "TRANSFER_DST_OPTIMAL"
    /\ commands'[2].aspectMask = aspectMask
    /\ commands'[2].baseMipLevel = baseMipLevel
    /\ commands'[2].levelCount = levelCount
    /\ commands'[2].baseArrayLayer = 0
    /\ commands'[2].layerCount = layerCount
    /\ mCurrentLayout'[i] = "TRANSFER_DST_OPTIMAL"

\* C18: clearColor and clearDepthStencil first record one barrier to
\* transfer-dst-optimal (all-commands to transfer; color aspect, or the
\* caller's aspect flags) and then the clear in that layout, leaving
\* currentLayout transfer-dst-optimal whatever it was; clearColor clears
\* [baseMip, baseMip + levelCount) over all layers, clearDepthStencil level 0,
\* layer 0 only.
C18_ClearsTransitionFirst ==
    [][ClearReturns =>
           LET i == imageOut'.image
           IN  IF imageOut'.op = "clearColor"
               THEN ClearCommands(i, "clearColorImage", {"COLOR"}, imageOut'.mipLevel,
                                  imageOut'.levelCount, mLayerCount[i])
               ELSE ClearCommands(i, "clearDepthStencilImage", imageOut'.aspect,
                                  0, 1, 1)]_vars

\* clearColor has returned for levels 1 and 2 of a cube map that was in
\* color-attachment-optimal.
C18_ClearedCubeMapLevels ==
    /\ imageOut.op = "clearColor"
    /\ imageOut.result = "ok"
    /\ Len(commands) = 2
    /\ commands[1].layout = "COLOR_ATTACHMENT_OPTIMAL"
    /\ commands[2].baseMipLevel = 1
    /\ commands[2].levelCount = 2
    /\ commands[2].layerCount = 6
    /\ mCurrentLayout["image"] = "TRANSFER_DST_OPTIMAL"

\* ---------------------------------------------------------------- C19

\* C19: an image handle adopted with init2DWeakReference is never destroyed
\* and never handed to the deferred-release queue, whatever ImageHelper calls
\* follow (destroy, release and resetImageWeakReference among them); and a
\* helper holding an adopted image has no device memory.
C19_AdoptedImageNeverDestroyedOrReleased ==
    /\ \A h \in ExternalHandles :
           /\ h \notin destroyed
           /\ h \notin QueuedHandles(garbage)
    /\ \A i \in ImageHelpers :
           mImage[i] \in ExternalHandles => mDeviceMemory[i] = NullHandle


\* ---------------------------------------------------------------- C20

\* The handles the three helpers hold.
HeldHandles ==
    (RetainedHandles(mRetainedBuffers)
        \cup {mBuffer, mMemory, mCurrentDescriptorPool}
        \cup {mImage[i] : i \in ImageHelpers}
        \cup {mDeviceMemory[i] : i \in ImageHelpers}) \ {NullHandle}

\* No handle has been destroyed and queued, queued twice, or destroyed or
\* queued while a helper still holds it and so can destroy or queue it again.
NoHandleTwice ==
    /\ \A j, k \in DOMAIN garbage : garbage[j].handle = garbage[k].handle => j = k
    /\ QueuedHandles(garbage) \cap destroyed = {}
    /\ HeldHandles \cap (QueuedHandles(garbage) \cup destroyed) = {}

\* The step is a destroy of the object whose last call was release or destroy.
BufferDestroyedAgain == out.op \in {"release", "destroy"} /\ out'.op = "destroy"
PoolDestroyedAgain == poolOut.op = "destroy" /\ poolOut'.op = "destroy"
ImageDestroyedAgain ==
    /\ imageOut.op \in {"release", "destroy"}
    /\ imageOut'.op = "destroy"
    /\ imageOut'.image = imageOut.image

\* C20 as stated: for the three helpers, destroy after destroy and destroy
\* after release destroy and release no handle again, and the second call
\* leaves the state of the helper unchanged.
C20_SecondDestroyChangesNothing ==
    /\ [][/\ BufferDestroyedAgain => UNCHANGED <<destroyed, garbage, bufferVars>>
          /\ PoolDestroyedAgain =>
                UNCHANGED <<destroyed, garbage, mCurrentDescriptorPool,
                            mCurrentSetsCount, mFreeDescriptorSets>>
          /\ ImageDestroyedAgain =>
                UNCHANGED <<destroyed, garbage, mImage, mDeviceMemory,
                            mCurrentLayout, mLayerCount>>]_vars
    /\ [](NoHandleTwice)

\* C20, amended: destroy after destroy and destroy after release destroy and
\* release no handle again and stop in no assertion; a helper that has been
\* released or destroyed holds no handle, so that a destroy now would destroy
\* nothing; after the second call alignment is 0 and retainedBuffers empty
\* (DynamicBuffer) and currentLayout is undefined and layerCount 0
\* (ImageHelper).  A destroy after a release changes nothing else of a
\* DynamicBuffer, and of an ImageHelper only currentLayout and layerCount,
\* which release leaves as they were.
C20_SecondDestroyIsSafe ==
    /\ [][/\ BufferDestroyedAgain => UNCHANGED <<destroyed, garbage, bufferVars>>
          /\ PoolDestroyedAgain =>
                UNCHANGED <<destroyed, garbage, mCurrentDescriptorPool,
                            mCurrentSetsCount, mFreeDescriptorSets>>
          /\ ImageDestroyedAgain =>
                /\ UNCHANGED <<destroyed, garbage, mImage, mDeviceMemory>>
                /\ mCurrentLayout' =
                       [mCurrentLayout EXCEPT ![imageOut.image] = "UNDEFINED"]
                /\ mLayerCount' = [mLayerCount EXCEPT ![imageOut.image] = 0]]_vars
    /\ [](/\ NoHandleTwice
          /\ out.op \in {"release", "destroy"} =>
                /\ lifecycle \in {"released", "destroyed"}
                /\ AllDestroyed = destroyed
                /\ mBuffer = NullHandle
                /\ mMemory = NullHandle
                /\ mRetainedBuffers = <<>>
                /\ mAlignment = 0
          /\ poolOut.op = "destroy" =>
                /\ poolLifecycle \in {"constructed", "destroyed"}
                /\ destroyObject(destroyed, mCurrentDescriptorPool) = destroyed
                /\ mCurrentDescriptorPool = NullHandle
          /\ imageOut.op \in {"release", "destroy"} =>
                /\ imageLifecycle = "running"
                /\ ImageDestroyed(imageOut.image) = destroyed
                /\ mImage[imageOut.image] = NullHandle
                /\ mDeviceMemory[imageOut.image] = NullHandle
          /\ imageOut.op = "destroy" =>
                /\ mCurrentLayout[imageOut.image] = "UNDEFINED"
                /\ mLayerCount[imageOut.image] = 0)

\* An image with its memory has been released and then destroyed: both
\* handles are in the queue, nothing was destroyed, and destroy has reset the
\* layout and the layer count the release had left.
C20_ImageDestroyedAfterRelease ==
    /\ imageOut.op = "destroy"
    /\ imageOut.image = "image"
    /\ Len(garbage) = 2
    /\ destroyed = {}
    /\ nextHandle = 3
    /\ mImage["image"] = NullHandle
    /\ mLayerCount["image"] = 0
    /\ imageLayout["image"] # "UNDEFINED"


\* ---------------------------------------------------------------- C21

\* A step in which getIndexBufferForDrawArrays returned success.
DrawArraysReturns == out'.op = "getIndexBufferForDrawArrays" /\ out'.result = "ok"

\* first, first + 1, ..., first + count - 1, first, as 32-bit unsigned values.
ClosedLineLoop(first, count) ==
    [k \in 1 .. (count + 1) |->
        IF k = count + 1 THEN first ELSE (first + k - 1) % Uint32Modulus]

\* C21: for any 32-bit unsigned first and count, getIndexBufferForDrawArrays
\* allocates (count + 1) * 4 bytes, writes exactly the count + 1 indices
\* first, first + 1, ..., first + count - 1, first into the region allocate
\* returned, never past its end, and then flushes that region.
C21_DrawArraysWritesClosedLoop ==
    [][DrawArraysReturns =>
          /\ out'.arg = sizeofUint32 * (lineLoopOut'.vertexCount + 1)
          /\ lineLoopOut'.indices =
                 ClosedLineLoop(lineLoopOut'.firstVertex, lineLoopOut'.vertexCount)
          /\ sizeofUint32 * Len(lineLoopOut'.indices) <= out'.arg
          /\ out'.ptr.base # NullHandle
          /\ out'.offset + out'.arg <= mSize'
          /\ out'.flushed.memory = mMemory'
          /\ out'.flushed.offset <= out'.offset
          /\ out'.flushed.offset + out'.flushed.size >= out'.offset + out'.arg]_vars

\* ---------------------------------------------------------------- C22

\* C22: changeLayoutWithStages rejects a transition whose current or new
\* layout has no entry in the access-mask table: no barrier is recorded whose
\* old or new layout is outside the table, with a base access mask of zero
\* for it.
C22_NoBarrierOutsideTheTable ==
    \A k \in DOMAIN commands :
        IsBarrier(commands[k]) =>
            /\ commands[k].layout \in BasicLayouts
            /\ commands[k].newLayout \in BasicLayouts

\* ---------------------------------------------------------------- C23

\* value rounded up to a multiple of alignment, in unbounded arithmetic.
ExactRoundUp(value, alignment) == ((value + alignment - 1) \div alignment) * alignment

\* C23: no allocate returns an offset or advances nextOffset to a wrapped or
\* truncated value: after every allocate that returns success, the stored
\* nextOffset is the returned offset plus roundUp(size, alignment) exactly.
C23_NextOffsetIsOffsetPlusNeedExactly ==
    [][AllocateReturns =>
          mNextAllocationOffset' = out'.offset + ExactRoundUp(out'.arg, mAlignment)]_vars


\* ---------------------------------------------------------------- C24

\* The last allocation was served from the backing that is active.
AllocatedFromActive == lastAlloc.valid /\ lastAlloc.handle = mBuffer

\* How far the driver's flushes cover the backing the step started with, the
\* flush the step itself issued included.
CoveredAfterStep ==
    CoveredTo(flushedTo, out'.flushed.offset, out'.flushed.offset + out'.flushed.size)

\* C24: whatever allocate, flush and invalidate calls came before, when a
\* flush returns success, and when an allocate has superseded the backing by
\* a rotation, the driver's flushes cover every byte of every range allocate
\* returned from that backing; an invalidate in between makes flush skip none.
C24_AllocatedBytesFlushed ==
    [][/\ (FlushReturns /\ AllocatedFromActive) => CoveredAfterStep >= lastAlloc.end
       /\ (AllocateReturns /\ out'.rotated /\ AllocatedFromActive) =>
              CoveredAfterStep >= lastAlloc.end]_vars


\* ---------------------------------------------------------------- C25

\* C25: also after allocate calls that failed in their rotation, an allocate
\* that returns success returns the handle of a valid active buffer and a
\* pointer into the memory that is mapped, never a null handle or a pointer
\* based at null, and an offset within the buffer.
C25_SuccessReturnsMappedActiveBuffer ==
    [][AllocateReturns =>
          /\ out'.handle # NullHandle
          /\ out'.handle = mBuffer'
          /\ out'.ptr.base # NullHandle
          /\ out'.ptr.base = mMemory'
          /\ out'.ptr.offset = out'.offset
          /\ out'.offset < mSize']_vars


\* ---------------------------------------------------------------- C26

\* The handles the device has handed out.
CreatedHandles == 1 .. (nextHandle - 1)

\* C26: every pair in retainedBuffers, and so every pair
\* releaseRetainedBuffers and destroy process, is a backing an earlier
\* allocate created and made active: a buffer and a memory the device handed
\* out, not the active ones; the first allocate of a freshly initialised
\* object, which has no backing yet, adds no entry.
C26_RetainedPairsAreCreatedBackings ==
    \A i \in DOMAIN mRetainedBuffers :
        /\ mRetainedBuffers[i].buffer \in CreatedHandles \ {mBuffer}
        /\ mRetainedBuffers[i].memory \in CreatedHandles \ {mMemory}


\* ---------------------------------------------------------------- C27

\* A step in which allocateSets returned an error.
AllocateSetsFails == poolOut'.op = "allocateSets" /\ poolOut'.result = "error"

\* C27: when allocateSets returns an error, from the creation of the new pool
\* or from the driver's allocation of the sets, currentPool, freePerIndex and
\* currentSetsCount are as before the call, and currentPool is a valid pool
\* that is not in the deferred-release queue.
C27_FailedAllocateSetsChangesNothing ==
    [][AllocateSetsFails =>
          /\ UNCHANGED <<mCurrentDescriptorPool, mFreeDescriptorSets, mCurrentSetsCount>>
          /\ mCurrentDescriptorPool' # NullHandle
          /\ mCurrentDescriptorPool' \notin QueuedHandles(garbage')]_vars


\* ---------------------------------------------------------------- C28

\* The last call was init2DWeakReference.
JustAdopted == imageOut.op = "init2DWeakReference"

\* C28: right after init2DWeakReference currentLayout is undefined, whatever
\* the helper held and recorded before; so the first barrier recorded for the
\* adopted image has oldLayout undefined.
C28_AdoptedImageStartsUndefined ==
    /\ [](JustAdopted => mCurrentLayout[imageOut.image] = "UNDEFINED")
    /\ [][(JustAdopted /\ RecordingReturns) =>
             \A k \in 1 .. Len(commands') :
                 (IsBarrier(commands'[k]) /\ commands'[k].image = mImage[imageOut.image]) =>
                     commands'[k].layout = "UNDEFINED"]_vars

================================================================
